---- MODULE Spec2Model ----
(***************************************************************************)
(* RealtimeScanner of server.py: scan_active_sessions() walks the projects *)
(* directory, classifies the tail of every recent session log with         *)
(* _parse_session() and returns one aggregate report.                      *)
(*                                                                         *)
(* A Python str that holds data is the sequence of its code points, so     *)
(* that slicing, strip(), split(), repr() and comparison are computed on   *)
(* every character; Str("...") writes such a sequence from a TLA+ string.  *)
(* The state names and the pending_approval "type", which are literals of  *)
(* the program and never meet data, are TLA+ strings.  JSON values are     *)
(* tagged records; a JSON object is the sequence of its <<key, value>>     *)
(* pairs in the order of the text, as the dict of json.loads() keeps them. *)
(* The numbers of the JSON values are the integers.                        *)
(*                                                                         *)
(* A time (time.time(), st_mtime, age_seconds) is a float of the program;  *)
(* here it is a whole number of ticks of 1/8 s, so that an age lies        *)
(* between two whole seconds and int() has a fraction to drop.  A multiple *)
(* of 1/8 is a binary float, and so is the difference of two of them: on   *)
(* these times the float subtraction of line 406 rounds nothing, and the   *)
(* integer difference of the ticks is the age_seconds the program holds.   *)
(* Times that are no multiple of 1/8 s, where the subtraction may round,   *)
(* are not among the inputs.  A line of a log is UTF-8 text or bytes that  *)
(* open() cannot decode; the encoding of open() is taken to be UTF-8.      *)
(*                                                                         *)
(* sys.stdout, on which _parse_session prints the failure of a log (line   *)
(* 539), is part of the state: its encoding, its error handler and whether *)
(* its device takes the write.  A print that raises leaves _parse_session  *)
(* and the scan.                                                           *)
(***************************************************************************)
EXTENDS Integers, Sequences, FiniteSets, TLC

VARIABLES fs, now, stdout, result

vars == <<fs, now, stdout, result>>

----------------------------------------------------------------------------
(* Characters and string literals.                                         *)

\* the characters of code points 32 to 95 and 97 to 126, in this order
AsciiLow == " !" \o "\"" \o "#$%&'()*+,-./0123456789:;<=>?@ABCDEFGHIJKLMNOPQRSTUVWXYZ[" \o "\\" \o "]^_"

AsciiHigh == "abcdefghijklmnopqrstuvwxyz{|}~"

\* ord(c) of the one-character TLA+ string c
Ord(c) ==
    IF \E k \in 1..Len(AsciiLow) : SubSeq(AsciiLow, k, k) = c
    THEN 31 + (CHOOSE k \in 1..Len(AsciiLow) : SubSeq(AsciiLow, k, k) = c)
    ELSE 96 + (CHOOSE k \in 1..Len(AsciiHigh) : SubSeq(AsciiHigh, k, k) = c)

\* the Python str written as the TLA+ string s
Str(s) == [i \in 1..Len(s) |-> Ord(SubSeq(s, i, i))]

sUser == Str("user")
sAssistant == Str("assistant")
sSystem == Str("system")
sToolUse == Str("tool_use")
sText == Str("text")
sImage == Str("image")
sAskUserQuestion == Str("AskUserQuestion")
sBash == Str("Bash")
sUnknownTool == Str("Unknown")
sUnknown == Str("unknown")
sAgentPrefix == Str("agent-")
sJsonlSuffix == Str(".jsonl")
sEllipsis == Str("...")
sEmpty == <<>>
sDash == Str("-")
sSlash == Str("/")
sQuestionMark == Str("?")

cDash == Ord("-")
cSlash == Ord("/")
cDot == Ord(".")
cQuestionMark == Ord("?")

\* the keys that the scanner reads
kType == Str("type")
kSessionId == Str("sessionId")
kTimestamp == Str("timestamp")
kMessage == Str("message")
kContent == Str("content")
kModel == Str("model")
kName == Str("name")
kInput == Str("input")
kQuestions == Str("questions")
kDescription == Str("description")
kCommand == Str("command")
kText == Str("text")

----------------------------------------------------------------------------
(* Python built-ins on strings and lists.                                  *)

Min(a, b) == IF a < b THEN a ELSE b

\* s[:n] for n >= 0, on a str or a list
Slice(s, n) == SubSeq(s, 1, Min(n, Len(s)))

\* the code points c for which chr(c).isspace() holds: what strip() removes
Whitespace ==
    (9..13) \cup (28..32) \cup {133, 160, 5760} \cup (8192..8202)
        \cup {8232, 8233, 8239, 8287, 12288}

RECURSIVE LStrip(_)
LStrip(s) ==
    IF s # <<>> /\ Head(s) \in Whitespace THEN LStrip(Tail(s)) ELSE s

RECURSIVE RStrip(_)
RStrip(s) ==
    IF s # <<>> /\ s[Len(s)] \in Whitespace
    THEN RStrip(SubSeq(s, 1, Len(s) - 1))
    ELSE s

\* str.strip()
Strip(s) == RStrip(LStrip(s))

\* str.startswith(p)
StartsWith(s, p) == Len(s) >= Len(p) /\ SubSeq(s, 1, Len(p)) = p

\* str.endswith(p)
EndsWith(s, p) ==
    Len(s) >= Len(p) /\ SubSeq(s, Len(s) - Len(p) + 1, Len(s)) = p

\* str.split(sep) for a one-character separator: the list of the pieces
RECURSIVE SplitFrom(_, _, _)
SplitFrom(s, sep, cur) ==
    IF s = <<>> THEN <<cur>>
    ELSE IF Head(s) = sep THEN <<cur>> \o SplitFrom(Tail(s), sep, <<>>)
    ELSE SplitFrom(Tail(s), sep, Append(cur, Head(s)))

Split(s, sep) == SplitFrom(s, sep, <<>>)

\* sep.join(parts)
RECURSIVE Join(_, _)
Join(parts, sep) ==
    IF parts = <<>> THEN <<>>
    ELSE IF Len(parts) = 1 THEN parts[1]
    ELSE parts[1] \o <<sep>> \o Join(Tail(parts), sep)

\* a < b on str: lexicographic by code point, a proper prefix is smaller
RECURSIVE StrLess(_, _)
StrLess(a, b) ==
    IF b = <<>> THEN FALSE
    ELSE IF a = <<>> THEN TRUE
    ELSE IF Head(a) = Head(b) THEN StrLess(Tail(a), Tail(b))
    ELSE Head(a) < Head(b)

\* str(n) of an int
RECURSIVE IntStr(_)
IntStr(n) ==
    IF n < 0 THEN sDash \o IntStr(0 - n)
    ELSE IF n < 10 THEN <<48 + n>>
    ELSE IntStr(n \div 10) \o <<48 + (n % 10)>>

\* n in lower-case hexadecimal, on at least width digits
RECURSIVE Hex(_, _)
Hex(n, width) ==
    LET d == n % 16
        digit == IF d < 10 THEN 48 + d ELSE 87 + d
    IN  IF width <= 1 /\ n < 16 THEN <<digit>>
        ELSE Hex(n \div 16, width - 1) \o <<digit>>

\* the ranges of the code points from 128 on for which chr(c).isprintable()
\* does not hold (the Unicode database of the interpreter, version 14.0)
NonPrintable ==
    <<
      <<128, 160>>, <<173, 173>>, <<888, 889>>, <<896, 899>>, <<907, 907>>,
      <<909, 909>>, <<930, 930>>, <<1328, 1328>>, <<1367, 1368>>, <<1419, 1420>>,
      <<1424, 1424>>, <<1480, 1487>>, <<1515, 1518>>, <<1525, 1541>>, <<1564, 1564>>,
      <<1757, 1757>>, <<1806, 1807>>, <<1867, 1868>>, <<1970, 1983>>, <<2043, 2044>>,
      <<2094, 2095>>, <<2111, 2111>>, <<2140, 2141>>, <<2143, 2143>>, <<2155, 2159>>,
      <<2191, 2199>>, <<2274, 2274>>, <<2436, 2436>>, <<2445, 2446>>, <<2449, 2450>>,
      <<2473, 2473>>, <<2481, 2481>>, <<2483, 2485>>, <<2490, 2491>>, <<2501, 2502>>,
      <<2505, 2506>>, <<2511, 2518>>, <<2520, 2523>>, <<2526, 2526>>, <<2532, 2533>>,
      <<2559, 2560>>, <<2564, 2564>>, <<2571, 2574>>, <<2577, 2578>>, <<2601, 2601>>,
      <<2609, 2609>>, <<2612, 2612>>, <<2615, 2615>>, <<2618, 2619>>, <<2621, 2621>>,
      <<2627, 2630>>, <<2633, 2634>>, <<2638, 2640>>, <<2642, 2648>>, <<2653, 2653>>,
      <<2655, 2661>>, <<2679, 2688>>, <<2692, 2692>>, <<2702, 2702>>, <<2706, 2706>>,
      <<2729, 2729>>, <<2737, 2737>>, <<2740, 2740>>, <<2746, 2747>>, <<2758, 2758>>,
      <<2762, 2762>>, <<2766, 2767>>, <<2769, 2783>>, <<2788, 2789>>, <<2802, 2808>>,
      <<2816, 2816>>, <<2820, 2820>>, <<2829, 2830>>, <<2833, 2834>>, <<2857, 2857>>,
      <<2865, 2865>>, <<2868, 2868>>, <<2874, 2875>>, <<2885, 2886>>, <<2889, 2890>>,
      <<2894, 2900>>, <<2904, 2907>>, <<2910, 2910>>, <<2916, 2917>>, <<2936, 2945>>,
      <<2948, 2948>>, <<2955, 2957>>, <<2961, 2961>>, <<2966, 2968>>, <<2971, 2971>>,
      <<2973, 2973>>, <<2976, 2978>>, <<2981, 2983>>, <<2987, 2989>>, <<3002, 3005>>,
      <<3011, 3013>>, <<3017, 3017>>, <<3022, 3023>>, <<3025, 3030>>, <<3032, 3045>>,
      <<3067, 3071>>, <<3085, 3085>>, <<3089, 3089>>, <<3113, 3113>>, <<3130, 3131>>,
      <<3141, 3141>>, <<3145, 3145>>, <<3150, 3156>>, <<3159, 3159>>, <<3163, 3164>>,
      <<3166, 3167>>, <<3172, 3173>>, <<3184, 3190>>, <<3213, 3213>>, <<3217, 3217>>,
      <<3241, 3241>>, <<3252, 3252>>, <<3258, 3259>>, <<3269, 3269>>, <<3273, 3273>>,
      <<3278, 3284>>, <<3287, 3292>>, <<3295, 3295>>, <<3300, 3301>>, <<3312, 3312>>,
      <<3315, 3327>>, <<3341, 3341>>, <<3345, 3345>>, <<3397, 3397>>, <<3401, 3401>>,
      <<3408, 3411>>, <<3428, 3429>>, <<3456, 3456>>, <<3460, 3460>>, <<3479, 3481>>,
      <<3506, 3506>>, <<3516, 3516>>, <<3518, 3519>>, <<3527, 3529>>, <<3531, 3534>>,
      <<3541, 3541>>, <<3543, 3543>>, <<3552, 3557>>, <<3568, 3569>>, <<3573, 3584>>,
      <<3643, 3646>>, <<3676, 3712>>, <<3715, 3715>>, <<3717, 3717>>, <<3723, 3723>>,
      <<3748, 3748>>, <<3750, 3750>>, <<3774, 3775>>, <<3781, 3781>>, <<3783, 3783>>,
      <<3790, 3791>>, <<3802, 3803>>, <<3808, 3839>>, <<3912, 3912>>, <<3949, 3952>>,
      <<3992, 3992>>, <<4029, 4029>>, <<4045, 4045>>, <<4059, 4095>>, <<4294, 4294>>,
      <<4296, 4300>>, <<4302, 4303>>, <<4681, 4681>>, <<4686, 4687>>, <<4695, 4695>>,
      <<4697, 4697>>, <<4702, 4703>>, <<4745, 4745>>, <<4750, 4751>>, <<4785, 4785>>,
      <<4790, 4791>>, <<4799, 4799>>, <<4801, 4801>>, <<4806, 4807>>, <<4823, 4823>>,
      <<4881, 4881>>, <<4886, 4887>>, <<4955, 4956>>, <<4989, 4991>>, <<5018, 5023>>,
      <<5110, 5111>>, <<5118, 5119>>, <<5760, 5760>>, <<5789, 5791>>, <<5881, 5887>>,
      <<5910, 5918>>, <<5943, 5951>>, <<5972, 5983>>, <<5997, 5997>>, <<6001, 6001>>,
      <<6004, 6015>>, <<6110, 6111>>, <<6122, 6127>>, <<6138, 6143>>, <<6158, 6158>>,
      <<6170, 6175>>, <<6265, 6271>>, <<6315, 6319>>, <<6390, 6399>>, <<6431, 6431>>,
      <<6444, 6447>>, <<6460, 6463>>, <<6465, 6467>>, <<6510, 6511>>, <<6517, 6527>>,
      <<6572, 6575>>, <<6602, 6607>>, <<6619, 6621>>, <<6684, 6685>>, <<6751, 6751>>,
      <<6781, 6782>>, <<6794, 6799>>, <<6810, 6815>>, <<6830, 6831>>, <<6863, 6911>>,
      <<6989, 6991>>, <<7039, 7039>>, <<7156, 7163>>, <<7224, 7226>>, <<7242, 7244>>,
      <<7305, 7311>>, <<7355, 7356>>, <<7368, 7375>>, <<7419, 7423>>, <<7958, 7959>>,
      <<7966, 7967>>, <<8006, 8007>>, <<8014, 8015>>, <<8024, 8024>>, <<8026, 8026>>,
      <<8028, 8028>>, <<8030, 8030>>, <<8062, 8063>>, <<8117, 8117>>, <<8133, 8133>>,
      <<8148, 8149>>, <<8156, 8156>>, <<8176, 8177>>, <<8181, 8181>>, <<8191, 8207>>,
      <<8232, 8239>>, <<8287, 8303>>, <<8306, 8307>>, <<8335, 8335>>, <<8349, 8351>>,
      <<8385, 8399>>, <<8433, 8447>>, <<8588, 8591>>, <<9255, 9279>>, <<9291, 9311>>,
      <<11124, 11125>>, <<11158, 11158>>, <<11508, 11512>>, <<11558, 11558>>, <<11560, 11564>>,
      <<11566, 11567>>, <<11624, 11630>>, <<11633, 11646>>, <<11671, 11679>>, <<11687, 11687>>,
      <<11695, 11695>>, <<11703, 11703>>, <<11711, 11711>>, <<11719, 11719>>, <<11727, 11727>>,
      <<11735, 11735>>, <<11743, 11743>>, <<11870, 11903>>, <<11930, 11930>>, <<12020, 12031>>,
      <<12246, 12271>>, <<12284, 12288>>, <<12352, 12352>>, <<12439, 12440>>, <<12544, 12548>>,
      <<12592, 12592>>, <<12687, 12687>>, <<12772, 12783>>, <<12831, 12831>>, <<42125, 42127>>,
      <<42183, 42191>>, <<42540, 42559>>, <<42744, 42751>>, <<42955, 42959>>, <<42962, 42962>>,
      <<42964, 42964>>, <<42970, 42993>>, <<43053, 43055>>, <<43066, 43071>>, <<43128, 43135>>,
      <<43206, 43213>>, <<43226, 43231>>, <<43348, 43358>>, <<43389, 43391>>, <<43470, 43470>>,
      <<43482, 43485>>, <<43519, 43519>>, <<43575, 43583>>, <<43598, 43599>>, <<43610, 43611>>,
      <<43715, 43738>>, <<43767, 43776>>, <<43783, 43784>>, <<43791, 43792>>, <<43799, 43807>>,
      <<43815, 43815>>, <<43823, 43823>>, <<43884, 43887>>, <<44014, 44015>>, <<44026, 44031>>,
      <<55204, 55215>>, <<55239, 55242>>, <<55292, 63743>>, <<64110, 64111>>, <<64218, 64255>>,
      <<64263, 64274>>, <<64280, 64284>>, <<64311, 64311>>, <<64317, 64317>>, <<64319, 64319>>,
      <<64322, 64322>>, <<64325, 64325>>, <<64451, 64466>>, <<64912, 64913>>, <<64968, 64974>>,
      <<64976, 65007>>, <<65050, 65055>>, <<65107, 65107>>, <<65127, 65127>>, <<65132, 65135>>,
      <<65141, 65141>>, <<65277, 65280>>, <<65471, 65473>>, <<65480, 65481>>, <<65488, 65489>>,
      <<65496, 65497>>, <<65501, 65503>>, <<65511, 65511>>, <<65519, 65531>>, <<65534, 65535>>,
      <<65548, 65548>>, <<65575, 65575>>, <<65595, 65595>>, <<65598, 65598>>, <<65614, 65615>>,
      <<65630, 65663>>, <<65787, 65791>>, <<65795, 65798>>, <<65844, 65846>>, <<65935, 65935>>,
      <<65949, 65951>>, <<65953, 65999>>, <<66046, 66175>>, <<66205, 66207>>, <<66257, 66271>>,
      <<66300, 66303>>, <<66340, 66348>>, <<66379, 66383>>, <<66427, 66431>>, <<66462, 66462>>,
      <<66500, 66503>>, <<66518, 66559>>, <<66718, 66719>>, <<66730, 66735>>, <<66772, 66775>>,
      <<66812, 66815>>, <<66856, 66863>>, <<66916, 66926>>, <<66939, 66939>>, <<66955, 66955>>,
      <<66963, 66963>>, <<66966, 66966>>, <<66978, 66978>>, <<66994, 66994>>, <<67002, 67002>>,
      <<67005, 67071>>, <<67383, 67391>>, <<67414, 67423>>, <<67432, 67455>>, <<67462, 67462>>,
      <<67505, 67505>>, <<67515, 67583>>, <<67590, 67591>>, <<67593, 67593>>, <<67638, 67638>>,
      <<67641, 67643>>, <<67645, 67646>>, <<67670, 67670>>, <<67743, 67750>>, <<67760, 67807>>,
      <<67827, 67827>>, <<67830, 67834>>, <<67868, 67870>>, <<67898, 67902>>, <<67904, 67967>>,
      <<68024, 68027>>, <<68048, 68049>>, <<68100, 68100>>, <<68103, 68107>>, <<68116, 68116>>,
      <<68120, 68120>>, <<68150, 68151>>, <<68155, 68158>>, <<68169, 68175>>, <<68185, 68191>>,
      <<68256, 68287>>, <<68327, 68330>>, <<68343, 68351>>, <<68406, 68408>>, <<68438, 68439>>,
      <<68467, 68471>>, <<68498, 68504>>, <<68509, 68520>>, <<68528, 68607>>, <<68681, 68735>>,
      <<68787, 68799>>, <<68851, 68857>>, <<68904, 68911>>, <<68922, 69215>>, <<69247, 69247>>,
      <<69290, 69290>>, <<69294, 69295>>, <<69298, 69375>>, <<69416, 69423>>, <<69466, 69487>>,
      <<69514, 69551>>, <<69580, 69599>>, <<69623, 69631>>, <<69710, 69713>>, <<69750, 69758>>,
      <<69821, 69821>>, <<69827, 69839>>, <<69865, 69871>>, <<69882, 69887>>, <<69941, 69941>>,
      <<69960, 69967>>, <<70007, 70015>>, <<70112, 70112>>, <<70133, 70143>>, <<70162, 70162>>,
      <<70207, 70271>>, <<70279, 70279>>, <<70281, 70281>>, <<70286, 70286>>, <<70302, 70302>>,
      <<70314, 70319>>, <<70379, 70383>>, <<70394, 70399>>, <<70404, 70404>>, <<70413, 70414>>,
      <<70417, 70418>>, <<70441, 70441>>, <<70449, 70449>>, <<70452, 70452>>, <<70458, 70458>>,
      <<70469, 70470>>, <<70473, 70474>>, <<70478, 70479>>, <<70481, 70486>>, <<70488, 70492>>,
      <<70500, 70501>>, <<70509, 70511>>, <<70517, 70655>>, <<70748, 70748>>, <<70754, 70783>>,
      <<70856, 70863>>, <<70874, 71039>>, <<71094, 71095>>, <<71134, 71167>>, <<71237, 71247>>,
      <<71258, 71263>>, <<71277, 71295>>, <<71354, 71359>>, <<71370, 71423>>, <<71451, 71452>>,
      <<71468, 71471>>, <<71495, 71679>>, <<71740, 71839>>, <<71923, 71934>>, <<71943, 71944>>,
      <<71946, 71947>>, <<71956, 71956>>, <<71959, 71959>>, <<71990, 71990>>, <<71993, 71994>>,
      <<72007, 72015>>, <<72026, 72095>>, <<72104, 72105>>, <<72152, 72153>>, <<72165, 72191>>,
      <<72264, 72271>>, <<72355, 72367>>, <<72441, 72703>>, <<72713, 72713>>, <<72759, 72759>>,
      <<72774, 72783>>, <<72813, 72815>>, <<72848, 72849>>, <<72872, 72872>>, <<72887, 72959>>,
      <<72967, 72967>>, <<72970, 72970>>, <<73015, 73017>>, <<73019, 73019>>, <<73022, 73022>>,
      <<73032, 73039>>, <<73050, 73055>>, <<73062, 73062>>, <<73065, 73065>>, <<73103, 73103>>,
      <<73106, 73106>>, <<73113, 73119>>, <<73130, 73439>>, <<73465, 73647>>, <<73649, 73663>>,
      <<73714, 73726>>, <<74650, 74751>>, <<74863, 74863>>, <<74869, 74879>>, <<75076, 77711>>,
      <<77811, 77823>>, <<78895, 82943>>, <<83527, 92159>>, <<92729, 92735>>, <<92767, 92767>>,
      <<92778, 92781>>, <<92863, 92863>>, <<92874, 92879>>, <<92910, 92911>>, <<92918, 92927>>,
      <<92998, 93007>>, <<93018, 93018>>, <<93026, 93026>>, <<93048, 93052>>, <<93072, 93759>>,
      <<93851, 93951>>, <<94027, 94030>>, <<94088, 94094>>, <<94112, 94175>>, <<94181, 94191>>,
      <<94194, 94207>>, <<100344, 100351>>, <<101590, 101631>>, <<101641, 110575>>, <<110580, 110580>>,
      <<110588, 110588>>, <<110591, 110591>>, <<110883, 110927>>, <<110931, 110947>>, <<110952, 110959>>,
      <<111356, 113663>>, <<113771, 113775>>, <<113789, 113791>>, <<113801, 113807>>, <<113818, 113819>>,
      <<113824, 118527>>, <<118574, 118575>>, <<118599, 118607>>, <<118724, 118783>>, <<119030, 119039>>,
      <<119079, 119080>>, <<119155, 119162>>, <<119275, 119295>>, <<119366, 119519>>, <<119540, 119551>>,
      <<119639, 119647>>, <<119673, 119807>>, <<119893, 119893>>, <<119965, 119965>>, <<119968, 119969>>,
      <<119971, 119972>>, <<119975, 119976>>, <<119981, 119981>>, <<119994, 119994>>, <<119996, 119996>>,
      <<120004, 120004>>, <<120070, 120070>>, <<120075, 120076>>, <<120085, 120085>>, <<120093, 120093>>,
      <<120122, 120122>>, <<120127, 120127>>, <<120133, 120133>>, <<120135, 120137>>, <<120145, 120145>>,
      <<120486, 120487>>, <<120780, 120781>>, <<121484, 121498>>, <<121504, 121504>>, <<121520, 122623>>,
      <<122655, 122879>>, <<122887, 122887>>, <<122905, 122906>>, <<122914, 122914>>, <<122917, 122917>>,
      <<122923, 123135>>, <<123181, 123183>>, <<123198, 123199>>, <<123210, 123213>>, <<123216, 123535>>,
      <<123567, 123583>>, <<123642, 123646>>, <<123648, 124895>>, <<124903, 124903>>, <<124908, 124908>>,
      <<124911, 124911>>, <<124927, 124927>>, <<125125, 125126>>, <<125143, 125183>>, <<125260, 125263>>,
      <<125274, 125277>>, <<125280, 126064>>, <<126133, 126208>>, <<126270, 126463>>, <<126468, 126468>>,
      <<126496, 126496>>, <<126499, 126499>>, <<126501, 126502>>, <<126504, 126504>>, <<126515, 126515>>,
      <<126520, 126520>>, <<126522, 126522>>, <<126524, 126529>>, <<126531, 126534>>, <<126536, 126536>>,
      <<126538, 126538>>, <<126540, 126540>>, <<126544, 126544>>, <<126547, 126547>>, <<126549, 126550>>,
      <<126552, 126552>>, <<126554, 126554>>, <<126556, 126556>>, <<126558, 126558>>, <<126560, 126560>>,
      <<126563, 126563>>, <<126565, 126566>>, <<126571, 126571>>, <<126579, 126579>>, <<126584, 126584>>,
      <<126589, 126589>>, <<126591, 126591>>, <<126602, 126602>>, <<126620, 126624>>, <<126628, 126628>>,
      <<126634, 126634>>, <<126652, 126703>>, <<126706, 126975>>, <<127020, 127023>>, <<127124, 127135>>,
      <<127151, 127152>>, <<127168, 127168>>, <<127184, 127184>>, <<127222, 127231>>, <<127406, 127461>>,
      <<127491, 127503>>, <<127548, 127551>>, <<127561, 127567>>, <<127570, 127583>>, <<127590, 127743>>,
      <<128728, 128732>>, <<128749, 128751>>, <<128765, 128767>>, <<128884, 128895>>, <<128985, 128991>>,
      <<129004, 129007>>, <<129009, 129023>>, <<129036, 129039>>, <<129096, 129103>>, <<129114, 129119>>,
      <<129160, 129167>>, <<129198, 129199>>, <<129202, 129279>>, <<129620, 129631>>, <<129646, 129647>>,
      <<129653, 129655>>, <<129661, 129663>>, <<129671, 129679>>, <<129709, 129711>>, <<129723, 129727>>,
      <<129734, 129743>>, <<129754, 129759>>, <<129768, 129775>>, <<129783, 129791>>, <<129939, 129939>>,
      <<129995, 130031>>, <<130042, 131071>>, <<173792, 173823>>, <<177977, 177983>>, <<178206, 178207>>,
      <<183970, 183983>>, <<191457, 194559>>, <<195102, 196607>>, <<201547, 917759>>, <<918000, 1114111>>
    >>

\* the texts repr() is made of
sNone == Str("None")
sTrue == Str("True")
sFalse == Str("False")
sCommaSpace == Str(", ")
sColonSpace == Str(": ")
sOpenBracket == Str("[")
sCloseBracket == Str("]")
sOpenBrace == Str("{")
sCloseBrace == Str("}")
sBackslashT == Str("\\t")
sBackslashN == Str("\\n")
sBackslashR == Str("\\r")
sBackslashX == Str("\\x")
sBackslashU == Str("\\u")
sBackslashBigU == Str("\\U")

\* chr(c).isprintable()
IsPrintable(c) ==
    IF c < 128 THEN c >= 32 /\ c < 127
    ELSE \A r \in 1..Len(NonPrintable) : c < NonPrintable[r][1] \/ c > NonPrintable[r][2]

\* one character of repr(s), quote being the quote that encloses it
ReprChar(c, quote) ==
    IF c = quote \/ c = 92 THEN <<92, c>>
    ELSE IF c = 9 THEN sBackslashT
    ELSE IF c = 10 THEN sBackslashN
    ELSE IF c = 13 THEN sBackslashR
    ELSE IF IsPrintable(c) THEN <<c>>
    ELSE IF c < 256 THEN sBackslashX \o Hex(c, 2)
    ELSE IF c < 65536 THEN sBackslashU \o Hex(c, 4)
    ELSE sBackslashBigU \o Hex(c, 8)

\* the characters of repr(s) between the quotes: s itself when no character
\* of it is escaped, else the two halves put together
RECURSIVE ReprChars(_, _)
ReprChars(s, quote) ==
    IF \A i \in 1..Len(s) : ReprChar(s[i], quote) = <<s[i]>> THEN s
    ELSE IF Len(s) = 1 THEN ReprChar(s[1], quote)
    ELSE LET half == Len(s) \div 2
         IN  ReprChars(SubSeq(s, 1, half), quote)
                \o ReprChars(SubSeq(s, half + 1, Len(s)), quote)

\* repr(s) of a str: in double quotes when s holds ' and no ", else in
\* single quotes
StrRepr(s) ==
    LET quote == IF (\E i \in 1..Len(s) : s[i] = 39) /\ (\A i \in 1..Len(s) : s[i] # 34)
                 THEN 34 ELSE 39
    IN  <<quote>> \o ReprChars(s, quote) \o <<quote>>

----------------------------------------------------------------------------
(* JSON values, as json.loads() returns them.                              *)

JNull == [t |-> "null"]
JBool(b) == [t |-> "bool", b |-> b]
JNum(n) == [t |-> "num", n |-> n]
JStr(s) == [t |-> "str", s |-> s]
JList(l) == [t |-> "list", l |-> l]
\* o is the sequence of the <<key, value>> pairs, each key once
JObj(o) == [t |-> "obj", o |-> o]

\* Python's None is JSON's null
None == JNull

EmptyDict == <<>>

\* isinstance(v, dict)
IsDict(v) == v.t = "obj"

\* key in d, d the pairs of a JSON object
DictHas(d, key) == \E i \in 1..Len(d) : d[i][1] = key

\* d.get(key, default)
DictGet(d, key, default) ==
    LET at == {i \in 1..Len(d) : d[i][1] = key}
    IN  IF at = {} THEN default ELSE d[CHOOSE i \in at : TRUE][2]

\* bool(v): None, False, 0, "", [] and {} are false
Truthy(v) ==
    CASE v.t = "null" -> FALSE
      [] v.t = "bool" -> v.b
      [] v.t = "num" -> v.n # 0
      [] v.t = "str" -> v.s # <<>>
      [] v.t = "list" -> v.l # <<>>
      [] v.t = "obj" -> v.o # <<>>

\* repr(v): str(v) of a value that is not a str, and the text of a value
\* held in a list or a dict
RECURSIVE PyRepr(_)
RECURSIVE ListBody(_)
RECURSIVE DictBody(_)
PyRepr(v) ==
    CASE v.t = "null" -> sNone
      [] v.t = "bool" -> IF v.b THEN sTrue ELSE sFalse
      [] v.t = "num" -> IntStr(v.n)
      [] v.t = "str" -> StrRepr(v.s)
      [] v.t = "list" -> sOpenBracket \o ListBody(v.l) \o sCloseBracket
      [] v.t = "obj" -> sOpenBrace \o DictBody(v.o) \o sCloseBrace

\* the reprs of the elements of a list, joined by ", "
ListBody(l) ==
    IF l = <<>> THEN <<>>
    ELSE IF Len(l) = 1 THEN PyRepr(l[1])
    ELSE PyRepr(l[1]) \o sCommaSpace \o ListBody(Tail(l))

\* "key: value" for the pairs of a dict, joined by ", "
DictBody(d) ==
    IF d = <<>> THEN <<>>
    ELSE IF Len(d) = 1 THEN StrRepr(d[1][1]) \o sColonSpace \o PyRepr(d[1][2])
    ELSE StrRepr(d[1][1]) \o sColonSpace \o PyRepr(d[1][2]) \o sCommaSpace \o DictBody(Tail(d))

\* str(v): a str is its own text, every other value its repr
PyStr(v) == IF v.t = "str" THEN v.s ELSE PyRepr(v)

\* a == b: numbers and booleans by value, dicts whatever the order of
\* their keys
RECURSIVE PyEq(_, _)
PyEq(a, b) ==
    CASE a.t \in {"num", "bool"} /\ b.t \in {"num", "bool"} ->
            (IF a.t = "num" THEN a.n ELSE IF a.b THEN 1 ELSE 0)
                = (IF b.t = "num" THEN b.n ELSE IF b.b THEN 1 ELSE 0)
      [] a.t = "list" /\ b.t = "list" ->
            Len(a.l) = Len(b.l) /\ \A i \in 1..Len(a.l) : PyEq(a.l[i], b.l[i])
      [] a.t = "obj" /\ b.t = "obj" ->
            /\ Len(a.o) = Len(b.o)
            /\ \A i \in 1..Len(a.o) :
                  DictHas(b.o, a.o[i][1]) /\ PyEq(a.o[i][2], DictGet(b.o, a.o[i][1], None))
      [] OTHER -> a = b

----------------------------------------------------------------------------
(* RealtimeScanner                                                         *)

\* the resolution of the clock and of the modification times: a power of
\* two, so that every time is a float and now - mtime (line 406) is exact
TicksPerSecond == 8

\* n seconds, as a time
Seconds(n) == n * TicksPerSecond

\* int(x) of a time x in seconds: the fraction is dropped, towards zero
int(x) == IF x >= 0 THEN x \div TicksPerSecond ELSE -((-x) \div TicksPerSecond)

ACTIVE_THRESHOLD_SECONDS == 600

IDLE_THRESHOLD_SECONDS == 300

\* the slice bounds and the lookback window of _parse_session
DESCRIPTION_CHARS == 100

PREVIEW_CHARS == 150

LOOKBACK_LINES == 10

\* name.rfind("."), counted from 1: the last dot of name[1..i], 0 when none
RECURSIVE LastDot(_, _)
LastDot(name, i) ==
    IF i = 0 THEN 0 ELSE IF name[i] = cDot THEN i ELSE LastDot(name, i - 1)

\* Path.stem: the name without its suffix; the last dot starts a suffix
\* when it is neither the first nor the last character
Stem(name) ==
    LET d == LastDot(name, Len(name))
    IN  IF 1 < d /\ d < Len(name) THEN SubSeq(name, 1, d - 1) ELSE name

\* open(session_file, "r") and f.readlines() (lines 438-439): the whole file
\* is decoded, and one line that is not UTF-8 raises UnicodeDecodeError
readlines(session_file) ==
    [raised |-> \E i \in 1..Len(session_file.lines) : ~session_file.lines[i].utf8,
     lines |-> session_file.lines]

\* json.loads(line.strip()): a line holds its parsed value, or is not JSON
json_loads(line) == [raised |-> ~line.ok, value |-> line.v]

\* what `for item in content` yields; raised when content is not iterable.
\* A str yields its characters and a dict its keys: strings, never a dict.
IterContent(content) ==
    CASE content.t = "list" -> [raised |-> FALSE, items |-> content.l]
      [] content.t = "str" ->
            [raised |-> FALSE,
             items |-> [i \in 1..Len(content.s) |-> JStr(<<content.s[i]>>)]]
      [] content.t = "obj" ->
            [raised |-> FALSE,
             items |-> [i \in 1..Len(content.o) |-> JStr(content.o[i][1])]]
      [] OTHER -> [raised |-> TRUE, items |-> <<>>]

\* v[:n] is defined on str and list
Sliceable(v) == v.t \in {"str", "list"}

SliceValue(v, n) ==
    IF v.t = "str" THEN JStr(Slice(v.s, n)) ELSE JList(Slice(v.l, n))

\* the locals of _parse_session before the content loop (lines 452-455, 466)
InitialLocals ==
    [raised |-> FALSE, broke |-> FALSE, state |-> "unknown",
     has_question |-> FALSE, pending_approval |-> None, last_tool |-> None,
     last_message_preview |-> JStr(sEmpty)]

\* the tool_use branch of the content loop (lines 470-490)
ToolUseItem(item, acc, last_entry) ==
    LET tool_name == DictGet(item.o, kName, JStr(sUnknownTool))
        tool_input == DictGet(item.o, kInput, JObj(EmptyDict))
        last_tool == JObj(<<<<kName, tool_name>>,
                           <<kTimestamp, DictGet(last_entry.o, kTimestamp, None)>>>>)
    IN  IF ~IsDict(tool_input) THEN [acc EXCEPT !.raised = TRUE]
        ELSE IF tool_name = JStr(sAskUserQuestion)
        THEN [acc EXCEPT
                !.state = "waiting_for_question",
                !.has_question = TRUE,
                !.pending_approval =
                    [type |-> "question",
                     tool_name |-> tool_name,
                     description |->
                        JStr(Slice(PyStr(DictGet(tool_input.o, kQuestions, JList(<<>>))),
                                   DESCRIPTION_CHARS))],
                !.last_tool = last_tool,
                !.broke = TRUE]
        ELSE LET command == DictGet(tool_input.o, kCommand, JStr(sEmpty))
             IN  IF ~Sliceable(command) THEN [acc EXCEPT !.raised = TRUE]
                 ELSE [acc EXCEPT
                         !.state = "waiting_for_approval",
                         !.pending_approval =
                             [type |-> "tool_use",
                              tool_name |-> tool_name,
                              description |->
                                 DictGet(tool_input.o, kDescription,
                                         SliceValue(command, DESCRIPTION_CHARS))],
                         !.last_tool = last_tool,
                         !.broke = TRUE]

\* the text branch with the question test on the text as it is, not stripped
TextItemNoStrip(item, acc) ==
    LET text == DictGet(item.o, kText, JStr(sEmpty))
    IN  IF text.t # "str" THEN [acc EXCEPT !.raised = TRUE]
        ELSE [acc EXCEPT
                !.last_message_preview =
                    IF Len(text.s) > PREVIEW_CHARS
                    THEN JStr(Slice(text.s, PREVIEW_CHARS) \o sEllipsis)
                    ELSE text,
                !.has_question =
                    IF EndsWith(text.s, sQuestionMark) THEN TRUE ELSE @]

\* the text branch of the content loop (lines 492-496): len() and strip()
\* together are defined on a str only
TextItem(item, acc) ==
    LET text == DictGet(item.o, kText, JStr(sEmpty))
    IN  IF text.t # "str" THEN [acc EXCEPT !.raised = TRUE]
        ELSE [acc EXCEPT
                !.last_message_preview =
                    IF Len(text.s) > PREVIEW_CHARS
                    THEN JStr(Slice(text.s, PREVIEW_CHARS) \o sEllipsis)
                    ELSE text,
                !.has_question =
                    IF EndsWith(Strip(text.s), sQuestionMark) THEN TRUE ELSE @]

\* one turn of `for item in content` (lines 467-496)
ContentItem(item, acc, last_entry) ==
    IF ~IsDict(item) THEN acc
    ELSE IF DictGet(item.o, kType, None) = JStr(sToolUse)
    THEN ToolUseItem(item, acc, last_entry)
    ELSE IF DictGet(item.o, kType, None) = JStr(sText)
    THEN TextItem(item, acc)
    ELSE acc

\* the content loop without its break: the last tool_use item decides
RECURSIVE ContentLoopNoBreak(_, _, _)
ContentLoopNoBreak(items, acc, last_entry) ==
    IF items = <<>> \/ acc.raised THEN acc
    ELSE ContentLoopNoBreak(Tail(items), ContentItem(Head(items), acc, last_entry),
                            last_entry)

\* the content loop, left by break or by an exception
RECURSIVE ContentLoop(_, _, _)
ContentLoop(items, acc, last_entry) ==
    IF items = <<>> \/ acc.raised \/ acc.broke THEN acc
    ELSE ContentLoop(Tail(items), ContentItem(Head(items), acc, last_entry), last_entry)

\* the assistant branch without the `state == "unknown"` test of line 498:
\* the question heuristic overwrites the state a tool_use item gave
AssistantStateHeuristicAlways(last_entry) ==
    LET message == DictGet(last_entry.o, kMessage, JObj(EmptyDict))
    IN  IF ~IsDict(message) THEN [InitialLocals EXCEPT !.raised = TRUE]
        ELSE LET it == IterContent(DictGet(message.o, kContent, JList(<<>>)))
                 acc == ContentLoop(it.items, InitialLocals, last_entry)
             IN  IF it.raised THEN [InitialLocals EXCEPT !.raised = TRUE]
                 ELSE IF acc.raised THEN acc
                 ELSE [acc EXCEPT
                         !.state = IF acc.has_question
                                   THEN "waiting_for_question"
                                   ELSE "task_complete"]

\* the assistant branch (lines 462-501)
AssistantState(last_entry) ==
    LET message == DictGet(last_entry.o, kMessage, JObj(EmptyDict))
    IN  IF ~IsDict(message) THEN [InitialLocals EXCEPT !.raised = TRUE]
        ELSE LET it == IterContent(DictGet(message.o, kContent, JList(<<>>)))
                 acc == ContentLoop(it.items, InitialLocals, last_entry)
             IN  IF it.raised THEN [InitialLocals EXCEPT !.raised = TRUE]
                 ELSE IF acc.raised \/ acc.state # "unknown" THEN acc
                 ELSE [acc EXCEPT
                         !.state = IF acc.has_question
                                   THEN "waiting_for_question"
                                   ELSE "task_complete"]

\* "Determine state" with the idle test written >=
DetermineStateIdleAtThreshold(last_entry, age_seconds) ==
    LET entry_type == DictGet(last_entry.o, kType, JStr(sUnknown))
    IN  IF age_seconds >= Seconds(IDLE_THRESHOLD_SECONDS)
        THEN [InitialLocals EXCEPT !.state = "idle"]
        ELSE IF entry_type = JStr(sUser)
        THEN [InitialLocals EXCEPT !.state = "processing"]
        ELSE IF entry_type = JStr(sAssistant)
        THEN AssistantState(last_entry)
        ELSE InitialLocals

\* "Determine state" (lines 452-501)
DetermineState(last_entry, age_seconds) ==
    LET entry_type == DictGet(last_entry.o, kType, JStr(sUnknown))
    IN  IF age_seconds > Seconds(IDLE_THRESHOLD_SECONDS)
        THEN [InitialLocals EXCEPT !.state = "idle"]
        ELSE IF entry_type = JStr(sUser)
        THEN [InitialLocals EXCEPT !.state = "processing"]
        ELSE IF entry_type = JStr(sAssistant)
        THEN AssistantState(last_entry)
        ELSE InitialLocals

\* the first tool_use item of one entry's content, None when it has none
RECURSIVE FirstToolUse(_, _)
FirstToolUse(items, entry) ==
    IF items = <<>> THEN None
    ELSE IF IsDict(Head(items)) /\ DictGet(Head(items).o, kType, None) = JStr(sToolUse)
    THEN JObj(<<<<kName, DictGet(Head(items).o, kName, JStr(sUnknownTool))>>,
               <<kTimestamp, DictGet(entry.o, kTimestamp, None)>>>>)
    ELSE FirstToolUse(Tail(items), entry)

\* the body of the lookback loop for one line (lines 509-522): the tool
\* found in it, None when there is none or when anything in it raised
LookbackLine(line) ==
    LET parsed == json_loads(line)
        entry == parsed.value
    IN  IF parsed.raised \/ ~IsDict(entry) THEN None
        ELSE IF DictGet(entry.o, kType, None) # JStr(sAssistant) THEN None
        ELSE LET message == DictGet(entry.o, kMessage, JObj(EmptyDict))
             IN  IF ~IsDict(message) THEN None
                 ELSE LET it == IterContent(DictGet(message.o, kContent, JList(<<>>)))
                      IN  IF it.raised THEN None ELSE FirstToolUse(it.items, entry)

\* for line in reversed(lines[-10:]), from index i down to index lo
RECURSIVE LookbackFrom(_, _, _)
LookbackFrom(lines, i, lo) ==
    IF i < lo THEN None
    ELSE IF LookbackLine(lines[i]) # None THEN LookbackLine(lines[i])
    ELSE LookbackFrom(lines, i - 1, lo)

\* the lookback over every line of the file: lines[-10:] written lines
LookbackWholeFile(lines) == LookbackFrom(lines, Len(lines), 1)

\* "Look for last tool usage in recent entries" (lines 506-522)
Lookback(lines) ==
    LET lo == IF Len(lines) > LOOKBACK_LINES THEN Len(lines) - LOOKBACK_LINES + 1 ELSE 1
    IN  LookbackFrom(lines, Len(lines), lo)

\* str(CLAUDE_PROJECTS_DIR) (line 21), for a home directory /Users/alice
CLAUDE_PROJECTS_DIR == Str("/Users/alice/.claude/projects")

sErrorParsing == Str("Error parsing session ")

\* str(session_file): the path of a log as _parse_session prints it
PathStr(session_file) ==
    CLAUDE_PROJECTS_DIR \o sSlash \o session_file.parent \o sSlash \o session_file.name

\* the encoder of out takes code point c: ASCII takes 0 to 127, UTF-8 takes
\* all but the surrogates d800 to dfff, and the handler surrogateescape
\* takes dc80 to dcff, the bytes of a name that is not UTF-8, as well
Encodable(out, c) ==
    \/ out.errors = "surrogateescape" /\ 56448 <= c /\ c <= 56575
    \/ IF out.encoding = "ascii" THEN c < 128 ELSE c < 55296 \/ c > 57343

\* print(text) on out: the exception it raises, "" when it raises none; the
\* text is encoded before it is written
print(out, text) ==
    IF \E i \in 1..Len(text) : ~Encodable(out, text[i]) THEN "UnicodeEncodeError"
    ELSE IF out.full THEN "OSError"
    ELSE ""

\* an exception that leaves _parse_session
Raise(exception) == [exception |-> exception]

IsRaise(session_info) == "exception" \in DOMAIN session_info

\* `except Exception as e` of _parse_session (lines 537-540): the failure is
\* printed and None returned, unless print raises.  The printed line holds
\* the path and str(e); str(e) is ASCII, or quotes the same path.
ExceptException(session_file, out) ==
    LET raised == print(out, sErrorParsing \o PathStr(session_file))
    IN  IF raised = "" THEN None ELSE Raise(raised)

\* _parse_session with the state derived again from the lookback: a tool
\* found in an earlier line makes the session wait for approval
_parse_session_LookbackSetsState(session_file, project_name, project_path, age_seconds, out) ==
    LET read == readlines(session_file)
        lines == read.lines
        parsed == json_loads(lines[Len(lines)])
        last_entry == parsed.value
        st == DetermineState(last_entry, age_seconds)
        message == DictGet(last_entry.o, kMessage, JObj(EmptyDict))
        failed == ExceptException(session_file, out)
    IN  IF session_file.kind # "regular" THEN failed
        ELSE IF read.raised THEN failed
        ELSE IF lines = <<>> THEN None
        ELSE IF parsed.raised THEN failed
        ELSE IF ~IsDict(last_entry) THEN failed
        ELSE IF st.raised THEN failed
        ELSE IF ~IsDict(message) THEN failed
        ELSE [session_id |-> DictGet(last_entry.o, kSessionId, JStr(Stem(session_file.name))),
              project_path |-> project_path,
              project_name |-> project_name,
              state |-> IF st.last_tool = None /\ Lookback(lines) # None
                        THEN "waiting_for_approval"
                        ELSE st.state,
              last_activity |-> DictGet(last_entry.o, kTimestamp, None),
              idle_seconds |-> int(age_seconds),
              model |-> DictGet(message.o, kModel, JStr(sUnknown)),
              last_tool |-> IF st.last_tool # None THEN st.last_tool ELSE Lookback(lines),
              last_message_preview |-> st.last_message_preview,
              pending_approval |-> st.pending_approval,
              file |-> <<session_file.parent, session_file.name>>]

\* RealtimeScanner._parse_session: the snapshot, or None, or the exception
\* that print raised in its handler.  The field `file`
\* is a ghost: the path the snapshot was made from, which the dict of the
\* code does not hold; it only lets properties name the file of a snapshot.
_parse_session(session_file, project_name, project_path, age_seconds, out) ==
    LET read == readlines(session_file)
        lines == read.lines
        parsed == json_loads(lines[Len(lines)])
        last_entry == parsed.value
        st == DetermineState(last_entry, age_seconds)
        message == DictGet(last_entry.o, kMessage, JObj(EmptyDict))
        failed == ExceptException(session_file, out)
    IN  IF session_file.kind # "regular" THEN failed
        ELSE IF read.raised THEN failed
        ELSE IF lines = <<>> THEN None
        ELSE IF parsed.raised THEN failed
        ELSE IF ~IsDict(last_entry) THEN failed
        ELSE IF st.raised THEN failed
        ELSE IF ~IsDict(message) THEN failed
        ELSE [session_id |-> DictGet(last_entry.o, kSessionId, JStr(Stem(session_file.name))),
              project_path |-> project_path,
              project_name |-> project_name,
              state |-> st.state,
              last_activity |-> DictGet(last_entry.o, kTimestamp, None),
              idle_seconds |-> int(age_seconds),
              model |-> DictGet(message.o, kModel, JStr(sUnknown)),
              last_tool |-> IF st.last_tool # None THEN st.last_tool ELSE Lookback(lines),
              last_message_preview |-> st.last_message_preview,
              pending_approval |-> st.pending_approval,
              file |-> <<session_file.parent, session_file.name>>]

\* project_name and project_path of a project directory (lines 390-398)
ProjectOf(dir_name) ==
    IF StartsWith(dir_name, sDash)
    THEN LET parts == Split(dir_name, cDash)
         IN  [project_name |-> IF parts # <<>> THEN parts[Len(parts)] ELSE dir_name,
              project_path |-> IF Len(parts) > 1
                               THEN sSlash \o Join(Tail(parts), cSlash)
                               ELSE dir_name]
    ELSE [project_name |-> dir_name, project_path |-> dir_name]

\* proj_dir.glob("*.jsonl"): the entries of the directory, in the order the
\* file system lists them, whose name ends in .jsonl
RECURSIVE Glob(_)
Glob(files) ==
    IF files = <<>> THEN <<>>
    ELSE IF EndsWith(Head(files).name, sJsonlSuffix)
    THEN <<Head(files)>> \o Glob(Tail(files))
    ELSE Glob(Tail(files))

\* the result dict at line 371 (its own "timestamp" text is not modelled);
\* raised is the exception that left scan_active_sessions, "" when none did
EmptyResult ==
    [raised |-> "", active_sessions |-> <<>>, waiting_count |-> 0,
     processing_count |-> 0, projects_with_waiting |-> <<>>]

InSeq(x, seq) == \E i \in 1..Len(seq) : seq[i] = x

\* the accumulation without the membership test of line 421
AccumulateNoDedup(res, session_info, project_name) ==
    IF session_info = None THEN res
    ELSE IF session_info.state \in {"waiting_for_question", "waiting_for_approval"}
    THEN [res EXCEPT
            !.active_sessions = Append(@, session_info),
            !.waiting_count = @ + 1,
            !.projects_with_waiting = Append(@, project_name)]
    ELSE IF session_info.state = "processing"
    THEN [res EXCEPT
            !.active_sessions = Append(@, session_info),
            !.processing_count = @ + 1]
    ELSE [res EXCEPT !.active_sessions = Append(@, session_info)]

\* the accumulation with a processing snapshot counted as a waiting one
AccumulateProcessingAsWaiting(res, session_info, project_name) ==
    IF session_info = None THEN res
    ELSE IF session_info.state
               \in {"waiting_for_question", "waiting_for_approval", "processing"}
    THEN [res EXCEPT
            !.active_sessions = Append(@, session_info),
            !.waiting_count = @ + 1,
            !.projects_with_waiting =
                IF InSeq(project_name, @) THEN @ ELSE Append(@, project_name)]
    ELSE [res EXCEPT !.active_sessions = Append(@, session_info)]

\* lines 416-425: append the snapshot and count it
Accumulate(res, session_info, project_name) ==
    IF session_info = None THEN res
    ELSE IF session_info.state \in {"waiting_for_question", "waiting_for_approval"}
    THEN [res EXCEPT
            !.active_sessions = Append(@, session_info),
            !.waiting_count = @ + 1,
            !.projects_with_waiting =
                IF InSeq(project_name, @) THEN @ ELSE Append(@, project_name)]
    ELSE IF session_info.state = "processing"
    THEN [res EXCEPT
            !.active_sessions = Append(@, session_info),
            !.processing_count = @ + 1]
    ELSE [res EXCEPT !.active_sessions = Append(@, session_info)]

\* lines 412-425: an exception that leaves _parse_session at line 412 leaves
\* the scan; a snapshot, or None, goes on to the accumulation
AfterParse(res, session_info, project_name) ==
    IF IsRaise(session_info) THEN [res EXCEPT !.raised = session_info.exception]
    ELSE Accumulate(res, session_info, project_name)

\* the loop body without the "Skip old sessions" test
SessionFileNoAgeSkip(res, session_file, proj, clock, out) ==
    IF StartsWith(session_file.name, sAgentPrefix) THEN res
    ELSE IF session_file.kind = "dangling"
    THEN [res EXCEPT !.raised = "FileNotFoundError"]
    ELSE AfterParse(res,
                    _parse_session(session_file, proj.project_name, proj.project_path,
                                   clock - session_file.mtime, out),
                    proj.project_name)

\* the loop body without the test that leaves the agent- files out
SessionFileNoAgentSkip(res, session_file, proj, clock, out) ==
    IF session_file.kind = "dangling"
    THEN [res EXCEPT !.raised = "FileNotFoundError"]
    ELSE LET age_seconds == clock - session_file.mtime
         IN  IF age_seconds > Seconds(ACTIVE_THRESHOLD_SECONDS) THEN res
             ELSE AfterParse(res,
                             _parse_session(session_file, proj.project_name,
                                            proj.project_path, age_seconds, out),
                             proj.project_name)

\* one turn of `for session_file in proj_dir.glob(...)` (lines 402-425);
\* stat() of a name that no longer leads to a file raises, outside any try.
\* clock and mtime are multiples of 1/8 s, on which the float subtraction
\* now - mtime of line 406 is the difference of the ticks.
SessionFile(res, session_file, proj, clock, out) ==
    IF StartsWith(session_file.name, sAgentPrefix) THEN res
    ELSE IF session_file.kind = "dangling"
    THEN [res EXCEPT !.raised = "FileNotFoundError"]
    ELSE LET age_seconds == clock - session_file.mtime
         IN  IF age_seconds > Seconds(ACTIVE_THRESHOLD_SECONDS) THEN res
             ELSE AfterParse(res,
                             _parse_session(session_file, proj.project_name,
                                            proj.project_path, age_seconds, out),
                             proj.project_name)

RECURSIVE SessionFiles(_, _, _, _, _)
SessionFiles(res, files, proj, clock, out) ==
    IF files = <<>> \/ res.raised # "" THEN res
    ELSE SessionFiles(SessionFile(res, Head(files), proj, clock, out), Tail(files), proj,
                      clock, out)

\* `for proj_dir in CLAUDE_PROJECTS_DIR.iterdir()` (lines 384-425)
RECURSIVE ProjectDirs(_, _, _, _)
ProjectDirs(res, entries, clock, out) ==
    IF entries = <<>> \/ res.raised # "" THEN res
    ELSE IF ~Head(entries).is_dir THEN ProjectDirs(res, Tail(entries), clock, out)
    ELSE ProjectDirs(SessionFiles(res, Glob(Head(entries).files),
                                  ProjectOf(Head(entries).name), clock, out),
                     Tail(entries), clock, out)

\* key=lambda x: x.get("last_activity") or ""
SortKey(x) == IF Truthy(x.last_activity) THEN x.last_activity ELSE JStr(sEmpty)

\* int(v) of a number or a boolean
NumberOf(v) == IF v.t = "num" THEN v.n ELSE IF v.b THEN 1 ELSE 0

\* the first index at which two lists hold values that are not equal, 0
\* when one list is the start of the other
RECURSIVE FirstDifference(_, _, _)
FirstDifference(a, b, i) ==
    IF i > Len(a) \/ i > Len(b) THEN 0
    ELSE IF PyEq(a[i], b[i]) THEN FirstDifference(a, b, i + 1)
    ELSE i

\* a < b does not raise TypeError: it is defined on two str, on two numbers
\* (a boolean is a number), and on two lists that are equal up to the end
\* of one of them or whose first unequal elements it is defined on
RECURSIVE Comparable(_, _)
Comparable(a, b) ==
    CASE a.t = "str" /\ b.t = "str" -> TRUE
      [] a.t \in {"num", "bool"} /\ b.t \in {"num", "bool"} -> TRUE
      [] a.t = "list" /\ b.t = "list" ->
            LET d == FirstDifference(a.l, b.l, 1)
            IN  d = 0 \/ Comparable(a.l[d], b.l[d])
      [] OTHER -> FALSE

\* a < b, for a and b on which it is defined
RECURSIVE KeyLess(_, _)
KeyLess(a, b) ==
    CASE a.t = "str" -> StrLess(a.s, b.s)
      [] a.t = "list" ->
            LET d == FirstDifference(a.l, b.l, 1)
            IN  IF d = 0 THEN Len(a.l) < Len(b.l) ELSE KeyLess(a.l[d], b.l[d])
      [] OTHER -> NumberOf(a) < NumberOf(b)

\* the insertion of an ascending sort: reverse=True forgotten
RECURSIVE InsertAscending(_, _)
InsertAscending(sorted, x) ==
    IF sorted = <<>> THEN <<x>>
    ELSE IF KeyLess(SortKey(x), SortKey(Head(sorted))) THEN <<x>> \o sorted
    ELSE <<Head(sorted)>> \o InsertAscending(Tail(sorted), x)

\* x put into a list that is in descending order, after every element whose
\* key is not smaller than its own
RECURSIVE InsertDescending(_, _)
InsertDescending(sorted, x) ==
    IF sorted = <<>> THEN <<x>>
    ELSE IF KeyLess(SortKey(Head(sorted)), SortKey(x)) THEN <<x>> \o sorted
    ELSE <<Head(sorted)>> \o InsertDescending(Tail(sorted), x)

RECURSIVE SortFrom(_, _)
SortFrom(sorted, rest) ==
    IF rest = <<>> THEN sorted
    ELSE SortFrom(InsertDescending(sorted, Head(rest)), Tail(rest))

\* list.sort(key=..., reverse=True) (lines 428-430): descending and stable,
\* equal keys keep their order; it compares until the order is known, so it
\* raises exactly when two of the keys cannot be compared
SortSessions(res) ==
    LET xs == res.active_sessions
    IN  IF \E i, j \in 1..Len(xs) : i # j /\ ~Comparable(SortKey(xs[i]), SortKey(xs[j]))
        THEN [EmptyResult EXCEPT !.raised = "TypeError"]
        ELSE [res EXCEPT !.active_sessions = SortFrom(<<>>, xs)]

\* RealtimeScanner.scan_active_sessions, reading the projects directory and
\* the clock, and printing on out
scan_active_sessions(projects_dir, clock, out) ==
    IF projects_dir.root = "missing" THEN EmptyResult
    ELSE IF projects_dir.root # "dir"
    THEN [EmptyResult EXCEPT !.raised = "NotADirectoryError"]
    ELSE LET res == ProjectDirs(EmptyResult, projects_dir.entries, clock, out)
         IN  IF res.raised # "" THEN [EmptyResult EXCEPT !.raised = res.raised]
             ELSE SortSessions(res)

----------------------------------------------------------------------------
(* The inputs: log entries, log files and projects directories.            *)

MaxItems == 2

MaxFiles == 2

Now0 == 1000

Rep(c, n) == [i \in 1..n |-> c]

SeqsUpTo(S, n) == UNION {[1..k -> S] : k \in 0..n}

\* a line of UTF-8 text that is the JSON text of v
Line(v) == [utf8 |-> TRUE, ok |-> TRUE, v |-> v]

\* a line of UTF-8 text that is not JSON
BadLine == [utf8 |-> TRUE, ok |-> FALSE, v |-> JNull]

\* a line of bytes that are not UTF-8, such as ff fe
RawLine == [utf8 |-> FALSE, ok |-> FALSE, v |-> JNull]

sProceed == Str("Proceed?")
sListFiles == Str("list files")
sLs == Str("ls -la")
sDone == Str("Done.")
\* a question followed by a form feed and a newline
sAnythingElse == Str("Done. Anything else?") \o <<12, 10>>
sDoneQ == Str("Done?")
sClaude == Str("claude")
sId == Str("id")

ToolUse(name, input) == JObj(<<<<kType, JStr(sToolUse)>>, <<kName, JStr(name)>>, <<kInput, input>>>>)

TextOf(text) == JObj(<<<<kType, JStr(sText)>>, <<kText, text>>>>)

\* content items
iAsk == ToolUse(sAskUserQuestion, JObj(<<<<kQuestions, JList(<<JStr(sProceed), JStr(Rep(Ord("q"), 95))>>)>>>>))
iBash == ToolUse(sBash, JObj(<<<<kCommand, JStr(sLs)>>>>))
iBashDesc == ToolUse(sBash, JObj(<<<<kDescription, JStr(sListFiles)>>, <<kCommand, JStr(sLs)>>>>))
iLongCommand == ToolUse(sBash, JObj(<<<<kCommand, JStr(Rep(Ord("x"), 101))>>>>))
iNoInput == JObj(<<<<kType, JStr(sToolUse)>>, <<kName, JStr(sBash)>>>>)
iNoName == JObj(<<<<kType, JStr(sToolUse)>>>>)
iBadInput == ToolUse(sBash, JStr(sLs))
iBadCommand == ToolUse(sBash, JObj(<<<<kDescription, JStr(sListFiles)>>, <<kCommand, JNull>>>>))
tDone == TextOf(JStr(sDone))
tAsk == TextOf(JStr(sAnythingElse))
tLong == TextOf(JStr(Rep(Ord("y"), 151)))
tBadText == TextOf(JNum(5))
tNoText == JObj(<<<<kType, JStr(sText)>>>>)
iImage == JObj(<<<<kType, JStr(sImage)>>>>)
iString == JStr(sDoneQ)

Items ==
    {iAsk, iBash, iBashDesc, iLongCommand, iNoInput, iNoName, iBadInput, iBadCommand,
     tDone, tAsk, tLong, tBadText, tNoText, iImage, iString}

\* timestamps as the log holds them
ts1 == JStr(Str("1"))
ts10 == JStr(Str("10"))
ts2 == JStr(Str("2"))

Entry(type, timestamp, content) ==
    JObj(<<<<kType, JStr(type)>>, <<kTimestamp, timestamp>>, <<kSessionId, JStr(sId)>>,
          <<kMessage, JObj(<<<<kModel, JStr(sClaude)>>, <<kContent, content>>>>)>>>>)

\* an entry without a timestamp
EntryNoTs(type, content) ==
    JObj(<<<<kType, JStr(type)>>,
          <<kMessage, JObj(<<<<kModel, JStr(sClaude)>>, <<kContent, content>>>>)>>>>)

\* entries whose content list is drawn from Items
ListEntries ==
    {Entry(type, ts2, JList(items)) :
        type \in {sAssistant}, items \in SeqsUpTo(Items, MaxItems)}
    \cup {Entry(type, ts2, JList(items)) :
            type \in {sUser, sSystem}, items \in {<<>>, <<iAsk>>, <<iBash>>, <<tAsk>>}}

\* entries with fields absent or of another type than the writer gives them
OddEntries ==
    {Entry(sUser, ts1, JStr(Str("hi"))),
     Entry(sAssistant, ts1, JStr(sDoneQ)),
     Entry(sAssistant, ts1, JNull),
     JObj(<<<<kType, JStr(sAssistant)>>>>),
     JObj(<<<<kType, JStr(sAssistant)>>, <<kMessage, JStr(sDone)>>>>),
     JObj(<<<<kType, JStr(sUser)>>, <<kMessage, JStr(sDone)>>>>),
     JObj(<<<<kMessage, JObj(<<<<kContent, JList(<<iBash>>)>>>>)>>>>),
     JObj(EmptyDict),
     JList(<<iBash>>)}

\* earlier lines of a log
Histories ==
    {<<>>,
     <<Line(Entry(sAssistant, ts1, JList(<<tDone, iBash>>)))>>}

\* lines of a history: an assistant entry that used Bash at "1", one that
\* asked and then used Bash at "10", one whose tool_use item has no name,
\* one whose content is null, a user entry, and a JSON value that is no object
lBash == Line(Entry(sAssistant, ts1, JList(<<tDone, iBash>>)))
lAskBash == Line(Entry(sAssistant, ts10, JList(<<iAsk, iBash>>)))
lNoName == Line(EntryNoTs(sAssistant, JList(<<iNoName>>)))
lNullContent == Line(Entry(sAssistant, ts2, JNull))
lUser == Line(Entry(sUser, ts1, JList(<<iBash>>)))
lList == Line(JList(<<iBash>>))

\* histories that end at the edge of the lookback window, or that hold lines
\* the lookback passes over, or a line that cannot be decoded: with the last
\* line after it, lBash is the 10th line from the end in the first and the
\* 11th in the second
LongHistories ==
    {<<lBash>> \o Rep(lUser, LOOKBACK_LINES - 2),
     <<lBash>> \o Rep(lUser, LOOKBACK_LINES - 1),
     <<lBash, lAskBash, lUser>>,
     <<lAskBash, lBash, BadLine, lList, lNullContent>>,
     <<lBash, lNoName>>,
     <<lUser, BadLine>>,
     <<RawLine, lBash>>}

\* the last entries of the logs that have a long history
LongLastEntries ==
    {Entry(sUser, ts2, JList(<<>>)),
     Entry(sAssistant, ts2, JList(<<tDone>>)),
     Entry(sAssistant, ts2, JList(<<tAsk, iBashDesc>>)),
     Entry(sSystem, ts2, JList(<<>>))}

sAlice == Str("-Users-alice-proj")
sBob == Str("-Users-bob-proj")
sScratch == Str("scratch")
sTrailing == Str("-Users-alice-proj-")
sReadme == Str("README")
sTxtSuffix == Str(".txt")
sS == Str("s")

\* s, e with an acute accent: a name that is UTF-8 and not ASCII
sAccent == <<115, 233>>

\* s and the surrogate dcff, which stands for a byte ff: a name that is
\* not UTF-8
sEscaped == <<115, 56575>>

\* the name of the i-th file of a listing: "s<i>.jsonl", "agent-<i>.jsonl"
\* or "s<i>.txt", or "s<i>.jsonl" with an s followed by an accented e or by
\* a byte that is not UTF-8
FileName(namekind, i) ==
    CASE namekind = "session" -> sS \o IntStr(i) \o sJsonlSuffix
      [] namekind = "accent" -> sAccent \o IntStr(i) \o sJsonlSuffix
      [] namekind = "escaped" -> sEscaped \o IntStr(i) \o sJsonlSuffix
      [] namekind = "agent" -> sAgentPrefix \o IntStr(i) \o sJsonlSuffix
      [] namekind = "other" -> sS \o IntStr(i) \o sTxtSuffix

\* a file as a listing describes it, before it has a place and a name
Variant(namekind, kind, age0, lines) ==
    [namekind |-> namekind, kind |-> kind, age0 |-> age0, lines |-> lines]

\* one regular session log for each entry, each history and each age, and
\* the logs with a long history
RichVariants ==
    {Variant("session", "regular", age0, h \o <<Line(e)>>) :
        age0 \in {60, 300, 600}, h \in Histories, e \in ListEntries \cup OddEntries}
    \cup {Variant("session", "regular", 60, h \o <<BadLine>>) : h \in Histories}
    \cup {Variant("session", "regular", 60, h \o <<RawLine>>) : h \in Histories}
    \cup {Variant("session", "regular", age0, h \o <<Line(e)>>) :
            age0 \in {60, 600}, h \in LongHistories, e \in LongLastEntries}
    \cup {Variant("session", "regular", 60, <<>>),
          Variant("session", "directory", 60, <<>>),
          Variant("other", "regular", 60, <<Line(Entry(sUser, ts1, JList(<<>>)))>>)}

\* the files of the listings that hold several
LeanVariants ==
    {Variant("session", "regular", 60, <<Line(Entry(sUser, ts2, JList(<<>>)))>>),
     Variant("session", "regular", 60, <<lBash, Line(Entry(sUser, ts2, JList(<<>>)))>>),
     Variant("session", "regular", 300, <<Line(Entry(sAssistant, ts1, JList(<<iBash>>)))>>),
     Variant("session", "regular", 60, <<Line(Entry(sAssistant, ts10, JList(<<iAsk>>)))>>),
     Variant("session", "regular", 60, <<Line(EntryNoTs(sAssistant, JList(<<tDone>>)))>>),
     Variant("session", "regular", 600, <<Line(Entry(sUser, JStr(sEmpty), JList(<<>>)))>>),
     Variant("session", "regular", 60, <<Line(Entry(sSystem, JNum(5), JList(<<>>)))>>),
     Variant("session", "regular", 60, <<Line(Entry(sUser, JNum(0), JList(<<>>)))>>),
     Variant("session", "regular", 60, <<BadLine>>),
     Variant("session", "regular", 60, <<>>),
     Variant("session", "dangling", 60, <<>>),
     Variant("agent", "regular", 60, <<Line(Entry(sAssistant, ts2, JList(<<iBash>>)))>>),
     Variant("session", "regular", 600, <<Line(Entry(sAssistant, ts2, JList(<<iBash>>)))>>)}

\* logs whose last entry has a timestamp that is no string: numbers, a
\* boolean and lists, which list.sort orders among their own kind
TimestampVariants ==
    {Variant("session", "regular", 60, <<Line(Entry(sUser, timestamp, JList(<<>>)))>>) :
        timestamp \in {JNum(9), JNum(10), JBool(TRUE),
                       JList(<<JNum(1)>>), JList(<<JNum(2)>>), JList(<<JNum(1), JNum(0)>>)}}

\* logs for a stdout that may refuse a line: logs that fail to parse, under
\* names of the three kinds, and logs that parse
NameVariants ==
    {Variant(namekind, "regular", 60, <<BadLine>>) : namekind \in {"session", "accent", "escaped"}}
    \cup {Variant("session", "regular", 60, <<Line(Entry(sAssistant, ts10, JList(<<iAsk>>)))>>),
          Variant("accent", "regular", 60, <<Line(Entry(sUser, ts2, JList(<<>>)))>>)}

\* sys.stdout: the encoding and the error handler of the text layer, and
\* whether the device refuses the write (a full disk, a closed pipe)
Stdout(encoding, errors, full) == [encoding |-> encoding, errors |-> errors, full |-> full]

\* the stdout of a UTF-8 terminal under the C locale
Terminal == Stdout("utf-8", "surrogateescape", FALSE)

Stdouts ==
    {Terminal, Stdout("utf-8", "strict", FALSE), Stdout("ascii", "strict", FALSE),
     Stdout("utf-8", "strict", TRUE)}

\* half a second: the files were written, and the clock is read, between
\* two whole seconds
HalfSecond == TicksPerSecond \div 2

\* the file of a variant, the i-th of the listing, in directory parent
File(variant, parent, i) ==
    [parent |-> parent, name |-> FileName(variant.namekind, i), kind |-> variant.kind,
     mtime |-> Seconds(Now0 - variant.age0) + HalfSecond, lines |-> variant.lines]

Dir(name) == [name |-> name, is_dir |-> TRUE]

NonDir(name) == [name |-> name, is_dir |-> FALSE]

\* the root's entries, in the order iterdir() yields them
Layouts ==
    {<<>>, <<Dir(sAlice)>>, <<Dir(sScratch)>>, <<Dir(sAlice), Dir(sBob)>>,
     <<NonDir(sReadme), Dir(sAlice)>>, <<Dir(sScratch), Dir(sAlice)>>,
     <<Dir(sTrailing)>>}

\* the indices, in order, of the files that place puts in entry d
RECURSIVE Placed(_, _, _)
Placed(place, d, i) ==
    IF i > Len(place) THEN <<>>
    ELSE IF place[i] = d THEN <<i>> \o Placed(place, d, i + 1)
    ELSE Placed(place, d, i + 1)

\* the projects directory with the entries of layout, the i-th variant of
\* listing being a file of entry place[i]
MkFs(layout, listing, place) ==
    [root |-> "dir",
     entries |->
        [d \in 1..Len(layout) |->
            [name |-> layout[d].name,
             is_dir |-> layout[d].is_dir,
             files |->
                LET idx == Placed(place, d, 1)
                IN  [k \in 1..Len(idx) |-> File(listing[idx[k]], layout[d].name, idx[k])]]]]

DirIndices(layout) == {d \in 1..Len(layout) : layout[d].is_dir}

MissingRoot == [root |-> "missing", entries |-> <<>>]

\* the projects path names a file, not a directory
FileRoot == [root |-> "file", entries |-> <<>>]

----------------------------------------------------------------------------
(* The state machine: a projects directory and a clock, and the one        *)
(* operation, a call of scan_active_sessions().                            *)

NotCalled == [called |-> FALSE, at |-> 0, out |-> EmptyResult]

\* The projects directory is missing, or is a file, or holds one project
\* with one file drawn from RichVariants, or holds the entries of a layout
\* with up to MaxFiles files drawn from LeanVariants, or holds one project
\* with MaxFiles files drawn from TimestampVariants, all with the stdout of
\* a terminal; or it holds one project with up to MaxFiles files drawn from
\* NameVariants, with any stdout.
Init ==
    /\ \/ fs \in {MissingRoot, FileRoot} /\ stdout = Terminal
       \/ /\ \E v \in RichVariants : fs = MkFs(<<Dir(sAlice)>>, <<v>>, <<1>>)
          /\ stdout = Terminal
       \/ /\ \E layout \in Layouts :
                \E listing \in SeqsUpTo(LeanVariants, MaxFiles) :
                   \E place \in [1..Len(listing) -> DirIndices(layout)] :
                      fs = MkFs(layout, listing, place)
          /\ stdout = Terminal
       \/ /\ \E listing \in [1..MaxFiles -> TimestampVariants] :
                fs = MkFs(<<Dir(sAlice)>>, listing, [i \in 1..MaxFiles |-> 1])
          /\ stdout = Terminal
       \/ /\ \E listing \in SeqsUpTo(NameVariants, MaxFiles) :
                fs = MkFs(<<Dir(sAlice)>>, listing, [i \in 1..Len(listing) |-> 1])
          /\ stdout \in Stdouts
    /\ now \in {Seconds(Now0) + HalfSecond, Seconds(Now0) + HalfSecond + 1}
    /\ result = NotCalled

\* GET /api/realtime: the handler's call of the scanner.  `at` is the clock
\* the scan read at line 382.
Scan ==
    /\ result' = [called |-> TRUE, at |-> now,
                  out |-> scan_active_sessions(fs, now, stdout)]
    /\ UNCHANGED <<fs, now, stdout>>

Next == Scan

Spec == Init /\ [][Next]_vars

----------------------------------------------------------------------------
(* Vocabulary of the properties: the files of the projects directory, the  *)
(* last entry of a file, and the report of the last call.                  *)

Called == result.called

Returned == result.called /\ result.out.raised = ""

Report == result.out

Sessions == Report.active_sessions

\* the files inside the immediate subdirectories of the root
AllFiles ==
    UNION {{fs.entries[d].files[k] : k \in 1..Len(fs.entries[d].files)} :
           d \in {d \in 1..Len(fs.entries) : fs.entries[d].is_dir}}

PathOf(f) == <<f.parent, f.name>>

\* the file at a path (no two files have the same path)
FileAt(path) ==
    LET d == CHOOSE d \in 1..Len(fs.entries) :
                /\ fs.entries[d].is_dir
                /\ \E k \in 1..Len(fs.entries[d].files) :
                      PathOf(fs.entries[d].files[k]) = path
        k == CHOOSE k \in 1..Len(fs.entries[d].files) :
                PathOf(fs.entries[d].files[k]) = path
    IN  fs.entries[d].files[k]

\* age_seconds of a file at the clock of the last call, as line 406 has it:
\* on multiples of 1/8 s the float difference is the difference of the ticks
AgeOf(f) == result.at - f.mtime

\* a session log: a regular file named *.jsonl and not agent-*
IsSessionLog(f) ==
    /\ f.kind = "regular"
    /\ Len(f.name) >= 6
    /\ SubSeq(f.name, Len(f.name) - 5, Len(f.name)) = sJsonlSuffix
    /\ ~(Len(f.name) >= 6 /\ SubSeq(f.name, 1, 6) = sAgentPrefix)

\* the last line of f is a JSON object
HasLastEntry(f) ==
    /\ f.lines # <<>>
    /\ f.lines[Len(f.lines)].ok
    /\ f.lines[Len(f.lines)].v.t = "obj"

LastEntry(f) == f.lines[Len(f.lines)].v

\* every line of f is UTF-8 text, so that readlines() returns them
Decodes(f) == \A k \in 1..Len(f.lines) : f.lines[k].utf8

\* v[key] of a JSON object v
Of(v, key) == DictGet(v.o, key, None)

HasType(e, type) == DictHas(e.o, kType) /\ Of(e, kType) = JStr(type)

\* the content list of an entry, empty when it has none
ContentList(e) ==
    IF /\ DictHas(e.o, kMessage)
       /\ Of(e, kMessage).t = "obj"
       /\ DictHas(Of(e, kMessage).o, kContent)
       /\ Of(Of(e, kMessage), kContent).t = "list"
    THEN Of(Of(e, kMessage), kContent).l
    ELSE <<>>

IsToolUse(item) ==
    item.t = "obj" /\ DictHas(item.o, kType) /\ Of(item, kType) = JStr(sToolUse)

IsNamed(item, name) == DictHas(item.o, kName) /\ Of(item, kName) = JStr(name)

HasToolUse(items) == \E i \in 1..Len(items) : IsToolUse(items[i])

\* the index of the first tool_use item of a list that has one
FirstToolUseAt(items) ==
    CHOOSE i \in 1..Len(items) :
        IsToolUse(items[i]) /\ \A j \in 1..(i - 1) : ~IsToolUse(items[j])

IsWaiting(state) == state \in {"waiting_for_question", "waiting_for_approval"}

\* the projects directory without the file at path
RemoveFile(dir, path) ==
    [dir EXCEPT !.entries =
        [d \in 1..Len(dir.entries) |->
            [dir.entries[d] EXCEPT !.files = SelectSeq(@, LAMBDA g : PathOf(g) # path)]]]

\* what the last call would have returned had file f not been there
Without(f) == scan_active_sessions(RemoveFile(fs, PathOf(f)), result.at, stdout)

\* the last entry of the file of snapshot s is an assistant entry with an
\* AskUserQuestion tool_use item somewhere in its content list
AsksSomewhere(s) ==
    /\ HasLastEntry(FileAt(s.file))
    /\ HasType(LastEntry(FileAt(s.file)), sAssistant)
    /\ \E i \in 1..Len(ContentList(LastEntry(FileAt(s.file)))) :
          /\ IsToolUse(ContentList(LastEntry(FileAt(s.file)))[i])
          /\ IsNamed(ContentList(LastEntry(FileAt(s.file)))[i], sAskUserQuestion)

\* ... and that item is the first tool_use item of the list
AsksFirst(s) ==
    /\ AsksSomewhere(s)
    /\ IsNamed(ContentList(LastEntry(FileAt(s.file)))
                  [FirstToolUseAt(ContentList(LastEntry(FileAt(s.file))))],
               sAskUserQuestion)

IsQuestionSnapshot(s) ==
    /\ s.state = "waiting_for_question"
    /\ s.pending_approval # None
    /\ s.pending_approval.type = "question"
    /\ s.pending_approval.tool_name = JStr(sAskUserQuestion)

----------------------------------------------------------------------------
\* C1 as stated: every snapshot whose last entry is an assistant entry with an
\* AskUserQuestion tool_use item at any position of its content list is in
\* state waiting_for_question with a question descriptor naming
\* AskUserQuestion, and adds nothing to processing_count.
C1_AskAnywhere ==
    Returned =>
        \A i \in 1..Len(Sessions) :
            AsksSomewhere(Sessions[i]) =>
                /\ IsQuestionSnapshot(Sessions[i])
                /\ Without(FileAt(Sessions[i].file)).processing_count
                      = Report.processing_count

\* C1 amended: when age_seconds <= 300 and the FIRST tool_use item of the last
\* assistant entry is named AskUserQuestion, the snapshot is in state
\* waiting_for_question with a question descriptor naming AskUserQuestion;
\* and a snapshot whose last assistant entry holds an AskUserQuestion item
\* anywhere, at any age, adds nothing to processing_count.
C1_AskFirstAndRecent ==
    Returned =>
        \A i \in 1..Len(Sessions) :
            /\ (AsksFirst(Sessions[i]) /\ AgeOf(FileAt(Sessions[i].file)) <= Seconds(300))
                  => IsQuestionSnapshot(Sessions[i])
            /\ AsksSomewhere(Sessions[i]) =>
                  /\ Sessions[i].state # "processing"
                  /\ Without(FileAt(Sessions[i].file)).processing_count
                        = Report.processing_count

\* a recent snapshot whose AskUserQuestion item comes first among the
\* tool_use items but after a text item, reported as a question
C1_Witness ==
    /\ Returned
    /\ \E i \in 1..Len(Sessions) :
          /\ AsksFirst(Sessions[i])
          /\ AgeOf(FileAt(Sessions[i].file)) <= Seconds(300)
          /\ FirstToolUseAt(ContentList(LastEntry(FileAt(Sessions[i].file)))) > 1
          /\ IsQuestionSnapshot(Sessions[i])

----------------------------------------------------------------------------
\* the last entry of the file of snapshot s has type "user"
LastIsUser(s) ==
    HasLastEntry(FileAt(s.file)) /\ HasType(LastEntry(FileAt(s.file)), sUser)

\* the file of snapshot s added one to processing_count and nothing to
\* waiting_count and projects_with_waiting
CountedAsProcessing(s) ==
    /\ s.state = "processing"
    /\ Report.processing_count = Without(FileAt(s.file)).processing_count + 1
    /\ Report.waiting_count = Without(FileAt(s.file)).waiting_count
    /\ Report.projects_with_waiting = Without(FileAt(s.file)).projects_with_waiting

\* C2 as stated: every snapshot whose last entry has type "user" is in state
\* processing, adds one to processing_count and nothing to waiting_count and
\* projects_with_waiting.
C2_UserAlwaysProcessing ==
    Returned =>
        \A i \in 1..Len(Sessions) : LastIsUser(Sessions[i]) => CountedAsProcessing(Sessions[i])

\* C2 amended: a snapshot whose last entry has type "user" and whose
\* age_seconds is at most 300 is in state processing and adds one to
\* processing_count; at any age it adds nothing to waiting_count and does not
\* put its project name into projects_with_waiting.
C2_RecentUserProcessing ==
    Returned =>
        \A i \in 1..Len(Sessions) :
            LastIsUser(Sessions[i]) =>
                LET without == Without(FileAt(Sessions[i].file))
                IN  /\ AgeOf(FileAt(Sessions[i].file)) <= Seconds(300)
                          => CountedAsProcessing(Sessions[i])
                    /\ Report.waiting_count = without.waiting_count
                    /\ Report.projects_with_waiting = without.projects_with_waiting

\* a recent user session counted as processing next to a waiting session of
\* the same project
C2_Witness ==
    /\ Returned
    /\ \E i, j \in 1..Len(Sessions) :
          /\ LastIsUser(Sessions[i])
          /\ AgeOf(FileAt(Sessions[i].file)) <= Seconds(300)
          /\ CountedAsProcessing(Sessions[i])
          /\ IsWaiting(Sessions[j].state)
          /\ Sessions[j].project_name = Sessions[i].project_name

----------------------------------------------------------------------------
\* C3: every snapshot with 300 < age_seconds <= 600 is in state idle whatever
\* its last entry holds, and a snapshot with age_seconds exactly 300 is not
\* idle.
C3_IdleOverride ==
    Returned =>
        \A i \in 1..Len(Sessions) :
            /\ (AgeOf(FileAt(Sessions[i].file)) > Seconds(300) /\ AgeOf(FileAt(Sessions[i].file)) <= Seconds(600))
                  => Sessions[i].state = "idle"
            /\ AgeOf(FileAt(Sessions[i].file)) = Seconds(300) => Sessions[i].state # "idle"

\* an idle snapshot of age 600 whose last entry holds a tool_use item, next to
\* a snapshot of age exactly 300 that waits for approval
C3_Witness ==
    /\ Returned
    /\ \E i, j \in 1..Len(Sessions) :
          /\ AgeOf(FileAt(Sessions[i].file)) = Seconds(600)
          /\ HasToolUse(ContentList(LastEntry(FileAt(Sessions[i].file))))
          /\ Sessions[i].state = "idle"
          /\ AgeOf(FileAt(Sessions[j].file)) = Seconds(300)
          /\ Sessions[j].state = "waiting_for_approval"

----------------------------------------------------------------------------
\* C4: no file whose age_seconds exceeds 600 has a snapshot or changes the
\* report in any way, and when every file is older than 600 s the report has
\* no snapshot and all counts zero.
C4_OldFilesSkipped ==
    Returned =>
        /\ \A i \in 1..Len(Sessions) : AgeOf(FileAt(Sessions[i].file)) <= Seconds(600)
        /\ \A f \in AllFiles :
              (f.kind # "dangling" /\ AgeOf(f) > Seconds(600)) =>
                  /\ \A i \in 1..Len(Sessions) : Sessions[i].file # PathOf(f)
                  /\ Without(f) = Report
        /\ (\A f \in AllFiles : f.kind # "dangling" /\ AgeOf(f) > Seconds(600)) =>
              Report = EmptyResult

\* a session log one tick older than 600 s whose last entry holds a tool_use
\* item, left out of a report that holds another session
C4_Witness ==
    /\ Returned
    /\ Len(Sessions) >= 1
    /\ \E f \in AllFiles :
          /\ IsSessionLog(f)
          /\ AgeOf(f) = Seconds(600) + 1
          /\ HasLastEntry(f)
          /\ HasToolUse(ContentList(LastEntry(f)))
          /\ \A i \in 1..Len(Sessions) : Sessions[i].file # PathOf(f)

----------------------------------------------------------------------------
\* f is a recent session log that reads as text and whose last entry is an
\* assistant entry whose first tool_use item has a name other than
\* AskUserQuestion
AsksApproval(f) ==
    /\ IsSessionLog(f)
    /\ AgeOf(f) <= Seconds(300)
    /\ Decodes(f)
    /\ HasLastEntry(f)
    /\ HasType(LastEntry(f), sAssistant)
    /\ HasToolUse(ContentList(LastEntry(f)))
    /\ LET item == ContentList(LastEntry(f))[FirstToolUseAt(ContentList(LastEntry(f)))]
       IN  /\ DictHas(item.o, kName)
           /\ Of(item, kName) # JStr(sAskUserQuestion)

\* the description the claim gives: the "description" field of the tool
\* input if present, else the first 100 characters of its "command" field
\* (the first 100 items of a command that is a list), else the empty string
ClaimedDescription(item) ==
    LET input == IF DictHas(item.o, kInput) /\ Of(item, kInput).t = "obj"
                 THEN Of(item, kInput).o
                 ELSE EmptyDict
    IN  IF DictHas(input, kDescription) THEN DictGet(input, kDescription, None)
        ELSE IF DictHas(input, kCommand) /\ Sliceable(DictGet(input, kCommand, None))
        THEN SliceValue(DictGet(input, kCommand, None), 100)
        ELSE JStr(sEmpty)

\* snapshot s is the one C5 describes for its file: waiting for approval of
\* the first tool_use item, counted once as waiting
IsApprovalSnapshot(s) ==
    LET f == FileAt(s.file)
        item == ContentList(LastEntry(f))[FirstToolUseAt(ContentList(LastEntry(f)))]
    IN  /\ s.state = "waiting_for_approval"
        /\ s.pending_approval
              = [type |-> "tool_use", tool_name |-> Of(item, kName),
                 description |-> ClaimedDescription(item)]
        /\ Report.waiting_count = Without(f).waiting_count + 1
        /\ Cardinality({k \in 1..Len(Report.projects_with_waiting) :
                           Report.projects_with_waiting[k] = s.project_name}) = 1

\* C5: a recent log whose last assistant entry's first tool_use item is
\* named other than AskUserQuestion has a snapshot in state
\* waiting_for_approval, with the descriptor {tool_use, the item's name,
\* description field if present, else the first 100 characters of command,
\* else ""}, counted once in waiting_count with its project name in
\* projects_with_waiting.
C5_ApprovalDescriptor ==
    Returned =>
        \A f \in AllFiles :
            AsksApproval(f) =>
                \E i \in 1..Len(Sessions) :
                    /\ Sessions[i].file = PathOf(f)
                    /\ IsApprovalSnapshot(Sessions[i])

----------------------------------------------------------------------------
\* C6: a call of scan() on a projects directory that is missing or is a
\* directory returns a report and never raises, and no file's presence
\* removes or alters the snapshot reported for another file.
C6_NeverRaises ==
    (Called /\ fs.root \in {"missing", "dir"}) =>
        /\ result.out.raised = ""
        /\ \A f \in AllFiles :
              Without(f).raised = "" =>
                  \A i \in 1..Len(Without(f).active_sessions) :
                      InSeq(Without(f).active_sessions[i], Sessions)

----------------------------------------------------------------------------
\* f is a recent session log with no line, or whose last line is not JSON
IsBadLog(f) ==
    /\ IsSessionLog(f)
    /\ AgeOf(f) <= Seconds(600)
    /\ (f.lines = <<>> \/ ~f.lines[Len(f.lines)].ok)

\* C7: a recent log with zero lines, or whose last line is not valid JSON,
\* has no snapshot and counts nowhere, and the call returns for the other
\* files exactly what it returns when the bad file is not there.
C7_BadLogSkipped ==
    Called =>
        \A f \in AllFiles :
            IsBadLog(f) =>
                /\ \A i \in 1..Len(Sessions) : Sessions[i].file # PathOf(f)
                /\ Without(f) = result.out

----------------------------------------------------------------------------
\* a timestamp that is absent or empty: null, "", 0, false, [] or {}
IsEmptyTimestamp(a) ==
    a \in {JNull, JStr(<<>>), JNum(0), JBool(FALSE), JList(<<>>), JObj(<<>>)}

\* a >= b on the timestamps of two snapshots, an absent or empty one taken
\* as "": the order Python gives two values of one kind, strings by code
\* point, numbers and booleans by value, lists element by element
AtLeast(a, b) ==
    LET ka == IF IsEmptyTimestamp(a) THEN JStr(sEmpty) ELSE a
        kb == IF IsEmptyTimestamp(b) THEN JStr(sEmpty) ELSE b
    IN  Comparable(ka, kb) /\ ~KeyLess(ka, kb)

Descending ==
    \A i \in 1..(Len(Sessions) - 1) :
        AtLeast(Sessions[i].last_activity, Sessions[i + 1].last_activity)

\* C8 as stated: active_sessions is in descending order of last_activity,
\* absent taken as "", and every snapshot with an absent last_activity comes
\* after every snapshot that has one.
C8_AbsentAfterPresent ==
    Returned =>
        /\ Descending
        /\ \A i, j \in 1..Len(Sessions) :
              (Sessions[i].last_activity = None /\ Sessions[j].last_activity # None)
                  => j < i

\* C8 amended: active_sessions is in descending order of last_activity,
\* absent or empty taken as "", so every snapshot with an absent
\* last_activity comes after every snapshot that has a non-empty one.
C8_AbsentAfterNonEmpty ==
    Returned =>
        /\ Descending
        /\ \A i, j \in 1..Len(Sessions) :
              (/\ Sessions[i].last_activity = None
               /\ ~IsEmptyTimestamp(Sessions[j].last_activity))
                  => j < i

\* a log without a timestamp that is listed first and reported last, after
\* a log with timestamp "10"
C8_Witness ==
    /\ Returned
    /\ Len(Sessions) = 2
    /\ Sessions[2].last_activity = None
    /\ Sessions[2].file[2] = FileName("session", 1)
    /\ Sessions[1].last_activity = ts10

----------------------------------------------------------------------------
\* C9: waiting_count is the number of snapshots in a waiting state,
\* processing_count the number in state processing, and
\* projects_with_waiting holds the project names of the waiting snapshots,
\* each exactly once.
C9_CountsMatchSessions ==
    Returned =>
        /\ Report.waiting_count
              = Cardinality({i \in 1..Len(Sessions) : IsWaiting(Sessions[i].state)})
        /\ Report.processing_count
              = Cardinality({i \in 1..Len(Sessions) : Sessions[i].state = "processing"})
        /\ {Report.projects_with_waiting[k] : k \in 1..Len(Report.projects_with_waiting)}
              = {Sessions[i].project_name :
                    i \in {i \in 1..Len(Sessions) : IsWaiting(Sessions[i].state)}}
        /\ \A k, l \in 1..Len(Report.projects_with_waiting) :
              Report.projects_with_waiting[k] = Report.projects_with_waiting[l] => k = l

\* two waiting snapshots of two directories with the same project name,
\* counted twice and named once
C9_Witness ==
    /\ Returned
    /\ Report.waiting_count = 2
    /\ Len(Report.projects_with_waiting) = 1
    /\ Sessions[1].file[1] # Sessions[2].file[1]

----------------------------------------------------------------------------
\* the text ends with '?' once the whitespace after it is taken away
EndsWithQuestion(text) ==
    \E k \in 1..Len(text) :
        text[k] = cQuestionMark /\ \A m \in (k + 1)..Len(text) : text[m] \in Whitespace

\* a text item of the list holds a str that ends in a question mark
AsksInText(items) ==
    \E k \in 1..Len(items) :
        /\ items[k].t = "obj"
        /\ DictHas(items[k].o, kType)
        /\ Of(items[k], kType) = JStr(sText)
        /\ DictHas(items[k].o, kText)
        /\ Of(items[k], kText).t = "str"
        /\ EndsWithQuestion(Of(items[k], kText).s)

\* the last entry of the file of snapshot s is a recent assistant entry
\* without a tool_use item
RecentAssistantNoTool(s) ==
    /\ AgeOf(FileAt(s.file)) <= Seconds(300)
    /\ HasType(LastEntry(FileAt(s.file)), sAssistant)
    /\ ~HasToolUse(ContentList(LastEntry(FileAt(s.file))))

\* C10: the snapshot of a recent log whose last assistant entry has no
\* tool_use item is in state waiting_for_question exactly when a text item's
\* trimmed text ends with '?', and in state task_complete otherwise.
C10_QuestionMarkHeuristic ==
    Returned =>
        \A i \in 1..Len(Sessions) :
            RecentAssistantNoTool(Sessions[i]) =>
                Sessions[i].state
                    = IF AsksInText(ContentList(LastEntry(FileAt(Sessions[i].file))))
                      THEN "waiting_for_question"
                      ELSE "task_complete"

\* a waiting_for_question snapshot whose question is followed by a newline
\* and by a second text item that asks nothing
C10_Witness ==
    /\ Returned
    /\ \E i \in 1..Len(Sessions) :
          /\ RecentAssistantNoTool(Sessions[i])
          /\ ContentList(LastEntry(FileAt(Sessions[i].file))) = <<tAsk, tDone>>
          /\ Sessions[i].state = "waiting_for_question"

----------------------------------------------------------------------------
\* position b ends the last non-empty segment of name, which starts at a:
\* no '-' from a to b, a '-' or nothing before a, only '-' after b
IsLastSegment(name, a, b) ==
    /\ a <= b
    /\ \A k \in a..b : name[k] # cDash
    /\ (a = 1 \/ name[a - 1] = cDash)
    /\ \A k \in (b + 1)..Len(name) : name[k] = cDash

\* name with every '-' written '/': '/' followed by the segments after the
\* first, joined with '/', when name starts with '-'
Slashed(name) == [k \in 1..Len(name) |-> IF name[k] = cDash THEN cSlash ELSE name[k]]

\* C11: a snapshot of a directory whose name starts with '-' has as
\* project_name the last non-empty '-'-segment of the name and as
\* project_path '/' followed by the segments after the first joined with
\* '/'; a snapshot of any other directory has the name as both.
C11_LastNonEmptySegment ==
    Returned =>
        \A i \in 1..Len(Sessions) :
            LET name == Sessions[i].file[1]
            IN  IF name[1] = cDash
                THEN /\ \A a, b \in 1..Len(name) :
                           IsLastSegment(name, a, b)
                               => Sessions[i].project_name = SubSeq(name, a, b)
                     /\ Sessions[i].project_path = Slashed(name)
                ELSE /\ Sessions[i].project_name = name
                     /\ Sessions[i].project_path = name

----------------------------------------------------------------------------
\* C12: a snapshot has a pending_approval descriptor only in state
\* waiting_for_question or waiting_for_approval; in state idle, processing,
\* task_complete or unknown it has none, whatever its last entry holds.
C12_DescriptorOnlyWhenWaiting ==
    Returned =>
        \A i \in 1..Len(Sessions) :
            /\ Sessions[i].pending_approval # None => IsWaiting(Sessions[i].state)
            /\ Sessions[i].state \in {"idle", "processing", "task_complete", "unknown"}
                  => Sessions[i].pending_approval = None

\* a processing snapshot without descriptor whose last entry, a user entry,
\* holds a tool_use item
C12_Witness ==
    /\ Returned
    /\ \E i \in 1..Len(Sessions) :
          /\ Sessions[i].state = "processing"
          /\ HasToolUse(ContentList(LastEntry(FileAt(Sessions[i].file))))
          /\ Sessions[i].pending_approval = None

----------------------------------------------------------------------------
\* the projects directory with the lines before the last line of the file at
\* path replaced by history
ReplaceHistory(dir, path, history) ==
    [dir EXCEPT !.entries =
        [d \in 1..Len(dir.entries) |->
            [dir.entries[d] EXCEPT !.files =
                [k \in 1..Len(@) |->
                    IF PathOf(@[k]) = path
                    THEN [@[k] EXCEPT !.lines = history \o <<@[Len(@)]>>]
                    ELSE @[k]]]]]

\* what the last call would have returned had the file of snapshot s had
\* this history before its last line: the report itself when that is the
\* history the file has
WithHistory(s, history) ==
    LET other == ReplaceHistory(fs, s.file, history)
    IN  IF other = fs THEN Report ELSE scan_active_sessions(other, result.at, stdout)

\* two snapshots with the same state, descriptor and preview
SameVerdict(s, t) ==
    /\ s.state = t.state
    /\ s.pending_approval = t.pending_approval
    /\ s.last_message_preview = t.last_message_preview

\* the files of the two snapshots have the same age and the same last line
SameLastLine(s, t) ==
    /\ AgeOf(FileAt(s.file)) = AgeOf(FileAt(t.file))
    /\ FileAt(s.file).lines[Len(FileAt(s.file).lines)]
          = FileAt(t.file).lines[Len(FileAt(t.file).lines)]

\* C13: the state of a snapshot depends only on the last line and the age
\* of its file: two log files with the same age and the same last line get
\* the same state, pending_approval and last_message_preview whatever their
\* earlier lines are.  Any two such snapshots of a report agree, and giving
\* the file of a snapshot another history leaves it a snapshot with these
\* three fields unchanged.  (A file that cannot be read has no snapshot and
\* so no state.)
C13_StateFromLastLineOnly ==
    Returned =>
        \A i \in 1..Len(Sessions) :
            /\ \A j \in 1..Len(Sessions) :
                  SameLastLine(Sessions[i], Sessions[j])
                      => SameVerdict(Sessions[i], Sessions[j])
            /\ \A history \in Histories :
                  LET other == WithHistory(Sessions[i], history)
                  IN  /\ other.raised = ""
                      /\ \E k \in 1..Len(other.active_sessions) :
                            /\ other.active_sessions[k].file = Sessions[i].file
                            /\ SameVerdict(other.active_sessions[k], Sessions[i])

\* two processing snapshots of one report with the same age and last line,
\* one with an earlier Bash entry and last_tool Bash, one without either
C13_Witness ==
    /\ Returned
    /\ \E i, j \in 1..Len(Sessions) :
          /\ SameLastLine(Sessions[i], Sessions[j])
          /\ Len(FileAt(Sessions[i].file).lines) = 2
          /\ Len(FileAt(Sessions[j].file).lines) = 1
          /\ Sessions[i].last_tool # None
          /\ Sessions[j].last_tool = None
          /\ Sessions[i].state = "processing"
          /\ Sessions[j].state = "processing"

----------------------------------------------------------------------------
\* the state of snapshot s was set from a tool_use item of its last entry
StateFromToolUse(s) ==
    /\ AgeOf(FileAt(s.file)) <= Seconds(300)
    /\ HasType(LastEntry(FileAt(s.file)), sAssistant)
    /\ HasToolUse(ContentList(LastEntry(FileAt(s.file))))

\* line k of lines is one of the last 10 and is a parseable assistant entry
\* with a tool_use item
UsesTool(lines, k) ==
    /\ k > Len(lines) - 10
    /\ lines[k].ok
    /\ lines[k].v.t = "obj"
    /\ HasType(lines[k].v, sAssistant)
    /\ HasToolUse(ContentList(lines[k].v))

\* the last_tool that entry gives: the name of its first tool_use item
\* ("Unknown" for an item without name) and the timestamp of the entry
ToolOf(entry) ==
    LET item == ContentList(entry)[FirstToolUseAt(ContentList(entry))]
    IN  JObj(<<<<kName, IF DictHas(item.o, kName) THEN Of(item, kName) ELSE JStr(sUnknownTool)>>,
              <<kTimestamp, IF DictHas(entry.o, kTimestamp)
                            THEN Of(entry, kTimestamp) ELSE JNull>>>>)

\* C14: when the state was not set from a tool_use item of the last entry,
\* last_tool is the first tool_use item, with the entry's timestamp, of the
\* most recent parseable assistant entry with a tool_use item among the last
\* 10 lines, and is absent exactly when these lines hold no such entry.
C14_LookbackLastTenLines ==
    Returned =>
        \A i \in 1..Len(Sessions) :
            LET lines == FileAt(Sessions[i].file).lines
            IN  ~StateFromToolUse(Sessions[i]) =>
                    /\ Sessions[i].last_tool = None
                          <=> ~\E k \in 1..Len(lines) : UsesTool(lines, k)
                    /\ \A k \in 1..Len(lines) :
                          (/\ UsesTool(lines, k)
                           /\ \A m \in (k + 1)..Len(lines) : ~UsesTool(lines, m))
                              => Sessions[i].last_tool = ToolOf(lines[k].v)

\* a snapshot without last_tool of a log of 11 lines whose first line, the
\* 11th from the last, is an assistant entry with a tool_use item
C14_Witness ==
    /\ Returned
    /\ \E i \in 1..Len(Sessions) :
          /\ ~StateFromToolUse(Sessions[i])
          /\ Len(FileAt(Sessions[i].file).lines) = 11
          /\ FileAt(Sessions[i].file).lines[1].ok
          /\ HasType(FileAt(Sessions[i].file).lines[1].v, sAssistant)
          /\ HasToolUse(ContentList(FileAt(Sessions[i].file).lines[1].v))
          /\ Sessions[i].last_tool = None

----------------------------------------------------------------------------
IsText(item) ==
    item.t = "obj" /\ DictHas(item.o, kType) /\ Of(item, kType) = JStr(sText)

ThreeDots == Str("...")

\* text cut to 150 characters followed by '...' when it is longer
Cut(text) ==
    IF Len(text) > 150 THEN SubSeq(text, 1, 150) \o ThreeDots ELSE text

\* the preview of the last text item of items, a text item without text
\* holding the empty text; the empty string when items has no text item
PreviewOf(items) ==
    IF \A k \in 1..Len(items) : ~IsText(items[k]) THEN JStr(<<>>)
    ELSE LET last == CHOOSE k \in 1..Len(items) :
                        IsText(items[k]) /\ \A m \in (k + 1)..Len(items) : ~IsText(items[m])
         IN  IF DictHas(items[last].o, kText)
             THEN JStr(Cut(Of(items[last], kText).s))
             ELSE JStr(<<>>)

\* the last entry of the file of snapshot s is a recent assistant entry
RecentAssistant(s) ==
    /\ AgeOf(FileAt(s.file)) <= Seconds(300)
    /\ HasType(LastEntry(FileAt(s.file)), sAssistant)

\* C15: the preview is the cut text of the last text item when the
\* last entry is a recent assistant entry without tool_use item, and the
\* empty string whenever the last entry holds a tool_use item or the state is
\* idle, processing or unknown.
C15_PreviewOnlyWithoutToolUse ==
    Returned =>
        \A i \in 1..Len(Sessions) :
            LET items == ContentList(LastEntry(FileAt(Sessions[i].file)))
            IN  Sessions[i].last_message_preview
                    = IF /\ RecentAssistant(Sessions[i])
                         /\ ~HasToolUse(items)
                         /\ Sessions[i].state \notin {"idle", "processing", "unknown"}
                      THEN PreviewOf(items)
                      ELSE JStr(<<>>)

----------------------------------------------------------------------------
\* f classifies successfully: _parse_session makes a snapshot of it
Classifies(f) ==
    LET proj == ProjectOf(f.parent)
        session_info == _parse_session(f, proj.project_name, proj.project_path, AgeOf(f),
                                       stdout)
    IN  session_info # None /\ ~IsRaise(session_info)

JsonlEnding == Str(".jsonl")

AgentStart == Str("agent-")

\* f matches *.jsonl, does not start with 'agent-', is at most 600 s old and
\* classifies successfully
Eligible(f) ==
    /\ Len(f.name) >= 6
    /\ SubSeq(f.name, Len(f.name) - 5, Len(f.name)) = JsonlEnding
    /\ SubSeq(f.name, 1, 6) # AgentStart
    /\ AgeOf(f) <= Seconds(600)
    /\ Classifies(f)

\* C16: active_sessions holds exactly one snapshot for each file of an
\* immediate subdirectory of the root that matches *.jsonl, does not start
\* with 'agent-', is at most 600 s old and classifies successfully, and no
\* snapshot for any other file.
C16_ExactlyTheEligibleFiles ==
    Returned =>
        /\ \A f \in AllFiles :
              Cardinality({i \in 1..Len(Sessions) : Sessions[i].file = PathOf(f)})
                  = IF Eligible(f) THEN 1 ELSE 0
        /\ \A i \in 1..Len(Sessions) :
              \E f \in AllFiles : PathOf(f) = Sessions[i].file

\* a report whose one snapshot is that of a log exactly 600 s old, from a
\* root that also holds a non-directory entry and a recent agent- log
C16_Witness ==
    /\ Returned
    /\ Len(Sessions) = 1
    /\ AgeOf(FileAt(Sessions[1].file)) = Seconds(600)
    /\ \E d \in 1..Len(fs.entries) : ~fs.entries[d].is_dir
    /\ \E g \in AllFiles :
          /\ SubSeq(g.name, 1, 6) = AgentStart
          /\ AgeOf(g) <= Seconds(600)
          /\ Classifies(g)

====
